---- MODULE Spec2Model ----
(***************************************************************************)
(* Verification model of the signup-sequencer core:                        *)
(*   - the root finalization task (task_monitor/tasks/finalize_identities) *)
(*   - the prover client (prover/mod.rs)                                   *)
(*   - the identity manager (contracts/mod.rs)                             *)
(*                                                                         *)
(* Spec       : the finalization task, its channel, tree and database.     *)
(* ProverSpec : calls of the prover client and of the identity manager.    *)
(***************************************************************************)
EXTENDS Integers, Sequences, FiniteSets, TLC

(***************************************************************************)
(* Bounds of the model.                                                    *)
(***************************************************************************)
NumRoots == 2          \* distinct root values the producers may send
MaxSends == 2          \* total number of roots sent on the channel
NumRuns == 2           \* invocations of FinalizeRoots::run on the shared receiver
ChannelCapacity == 2   \* capacity of the bounded mined-roots channel
MaxPolls == 2          \* the count of consecutive false results saturates here
MaxBatchSize == 2      \* largest batch size a prover is configured with
MaxIdentities == 3     \* longest identity list passed to a call
MaxTreeDepth == 2      \* deepest tree an identity manager is configured with
MaxSubmissions == 3    \* transactions submitted around one await_clean_slate
MaxBlocked == 1        \* producers waiting in send() at the same time

Roots == 1..NumRoots
Tasks == 1..NumRuns

VARIABLES
    chan,         \* roots buffered in the mined-roots channel, oldest first
    closed,       \* TRUE once every sender of the channel has been dropped
    sent,         \* history: every root sent, in send order
    received,     \* history: every root taken out of the channel, in order
    lock,         \* holders of the receiver's mutex: {} when free, else {t}
    pc,           \* pc[t]: position of run() number t
    ret,          \* ret[t]: value returned by run() number t
    last_check,   \* last_check[t]: last result of is_root_mined_multi_chain
    polls,        \* polls[t]: consecutive false results for mined_root(t)
    last_mark,    \* last_mark[t]: last result of mark_root_as_mined
    delivered,    \* history: roots recv() handed to run() t
    confirmed,    \* history: roots for which run() t observed true
    applied,      \* history: roots run() t passed to apply_updates_up_to
    marked,       \* history: roots run() t passed to mark_root_as_mined
    tree,         \* canonical tree: roots it has been advanced to, in order
    db_mined,     \* database: roots recorded as mined
    blocked       \* roots of producers waiting in send() on the full channel

finVars == <<chan, closed, sent, received, lock, pc, ret,
             last_check, polls, last_mark, delivered, confirmed, applied,
             marked, tree, db_mined, blocked>>

VARIABLES
    call,         \* the last call made: operation and arguments
    result,       \* the value that call returned
    requests,     \* HTTP requests the prover client issued for this batch
    transactions  \* transactions handed to the Ethereum client by the call

proverVars == <<call, result, requests, transactions>>

VARIABLES
    manager,      \* the identity manager: outcome of new() and its fields
    construction, \* the arguments and chain answers new() was called with
    pending,      \* transactions pending in the Ethereum client, oldest first
    drain         \* await_clean_slate: position, fetched list, mining calls

managerVars == <<manager, construction, pending, drain>>

vars == <<finVars, proverVars, managerVars>>

\* finalize_root's argument: the root the loop received last
mined_root(t) == delivered[t][Len(delivered[t])]

IsPrefix(s, t) ==
    /\ Len(s) <= Len(t)
    /\ \A i \in 1..Len(s) : s[i] = t[i]

Min(a, b) == IF a <= b THEN a ELSE b

(***************************************************************************)
(* The finalization task.                                                  *)
(***************************************************************************)
FinInit ==
    /\ chan = <<>>
    /\ closed = FALSE
    /\ sent = <<>>
    /\ received = <<>>
    /\ lock = {}
    /\ pc = [t \in Tasks |-> "start"]
    /\ ret = [t \in Tasks |-> "none"]
    /\ last_check = [t \in Tasks |-> "none"]
    /\ polls = [t \in Tasks |-> 0]
    /\ last_mark = [t \in Tasks |-> "none"]
    /\ delivered = [t \in Tasks |-> <<>>]
    /\ confirmed = [t \in Tasks |-> <<>>]
    /\ applied = [t \in Tasks |-> <<>>]
    /\ marked = [t \in Tasks |-> <<>>]
    /\ tree = <<>>
    /\ db_mined = {}
    /\ blocked = <<>>

\* A producer sends a root; a bounded channel accepts it only below capacity.
Send(r) ==
    /\ ~closed
    /\ Len(sent) < MaxSends
    /\ Len(chan) < ChannelCapacity
    /\ chan' = Append(chan, r)
    /\ sent' = Append(sent, r)
    /\ UNCHANGED <<closed, received, lock, pc, ret, last_check, polls,
                   last_mark, delivered, confirmed, applied, marked, tree,
                   db_mined>>
    /\ UNCHANGED <<blocked, proverVars, managerVars>>

\* A producer calls send(r) while the channel is full: it waits for room,
\* behind the producers that already wait.
SendBlocked(r) ==
    /\ ~closed
    /\ Len(chan) = ChannelCapacity
    /\ Len(blocked) < MaxBlocked
    /\ Len(sent) + Len(blocked) < MaxSends + MaxBlocked
    /\ blocked' = Append(blocked, r)
    /\ UNCHANGED <<chan, closed, sent, received, lock, pc, ret, last_check,
                   polls, last_mark, delivered, confirmed, applied, marked,
                   tree, db_mined>>
    /\ UNCHANGED <<proverVars, managerVars>>

\* SendUnblocked on a channel without a capacity: the send completes at once
SendUnblockedUnbounded ==
    /\ blocked # <<>>
    /\ chan' = Append(chan, Head(blocked))
    /\ sent' = Append(sent, Head(blocked))
    /\ blocked' = Tail(blocked)
    /\ UNCHANGED <<closed, received, lock, pc, ret, last_check, polls,
                   last_mark, delivered, confirmed, applied, marked, tree,
                   db_mined>>
    /\ UNCHANGED <<proverVars, managerVars>>

\* The channel has room again: the send of the producer that waited longest
\* completes.
SendUnblocked ==
    /\ blocked # <<>>
    /\ Len(chan) < ChannelCapacity
    /\ chan' = Append(chan, Head(blocked))
    /\ sent' = Append(sent, Head(blocked))
    /\ blocked' = Tail(blocked)
    /\ UNCHANGED <<closed, received, lock, pc, ret, last_check, polls,
                   last_mark, delivered, confirmed, applied, marked, tree,
                   db_mined>>
    /\ UNCHANGED <<proverVars, managerVars>>

\* The last sender is dropped.
Close ==
    /\ ~closed
    /\ closed' = TRUE
    /\ UNCHANGED <<chan, sent, received, lock, pc, ret, last_check, polls,
                   last_mark, delivered, confirmed, applied, marked, tree,
                   db_mined>>
    /\ UNCHANGED <<blocked, proverVars, managerVars>>

\* AcquireReceiver on a receiver that is shared without a mutex
AcquireReceiverUnlocked(t) ==
    /\ pc[t] = "start"
    /\ lock' = lock \cup {t}
    /\ pc' = [pc EXCEPT ![t] = "awaiting"]
    /\ UNCHANGED <<chan, closed, sent, received, ret, last_check, polls,
                   last_mark, delivered, confirmed, applied, marked, tree,
                   db_mined>>
    /\ UNCHANGED <<blocked, proverVars, managerVars>>

\* run(): self.mined_roots_receiver.lock().await
AcquireReceiver(t) ==
    /\ pc[t] = "start"
    /\ lock = {}
    /\ lock' = {t}
    /\ pc' = [pc EXCEPT ![t] = "awaiting"]
    /\ UNCHANGED <<chan, closed, sent, received, ret, last_check, polls,
                   last_mark, delivered, confirmed, applied, marked, tree,
                   db_mined>>
    /\ UNCHANGED <<blocked, proverVars, managerVars>>

\* ReceiveRoot with a receiver that hands out the newest buffered root
ReceiveNewestRoot(t) ==
    /\ pc[t] = "awaiting"
    /\ chan # <<>>
    /\ chan' = SubSeq(chan, 1, Len(chan) - 1)
    /\ received' = Append(received, chan[Len(chan)])
    /\ delivered' = [delivered EXCEPT ![t] = Append(@, chan[Len(chan)])]
    /\ polls' = [polls EXCEPT ![t] = 0]
    /\ last_check' = [last_check EXCEPT ![t] = "none"]
    /\ last_mark' = [last_mark EXCEPT ![t] = "none"]
    /\ pc' = [pc EXCEPT ![t] = "polling"]
    /\ UNCHANGED <<closed, sent, lock, ret, confirmed, applied, marked,
                   tree, db_mined>>
    /\ UNCHANGED <<blocked, proverVars, managerVars>>

\* finalize_roots_loop: recv() yields Some(mined_root)
ReceiveRoot(t) ==
    /\ pc[t] = "awaiting"
    /\ chan # <<>>
    /\ chan' = Tail(chan)
    /\ received' = Append(received, Head(chan))
    /\ delivered' = [delivered EXCEPT ![t] = Append(@, Head(chan))]
    /\ polls' = [polls EXCEPT ![t] = 0]
    /\ last_check' = [last_check EXCEPT ![t] = "none"]
    /\ last_mark' = [last_mark EXCEPT ![t] = "none"]
    /\ pc' = [pc EXCEPT ![t] = "polling"]
    /\ UNCHANGED <<closed, sent, lock, ret, confirmed, applied, marked,
                   tree, db_mined>>
    /\ UNCHANGED <<blocked, proverVars, managerVars>>

\* ChannelClosed with a loop that reports the closed channel as a failure
ChannelClosedAsError(t) ==
    /\ pc[t] = "awaiting"
    /\ chan = <<>>
    /\ closed
    /\ pc' = [pc EXCEPT ![t] = "terminated"]
    /\ ret' = [ret EXCEPT ![t] = "ErrClosed"]
    /\ lock' = {}
    /\ UNCHANGED <<chan, closed, sent, received, last_check, polls,
                   last_mark, delivered, confirmed, applied, marked, tree,
                   db_mined>>
    /\ UNCHANGED <<blocked, proverVars, managerVars>>

\* finalize_roots_loop: recv() yields None, the loop breaks, run() returns Ok(())
ChannelClosed(t) ==
    /\ pc[t] = "awaiting"
    /\ chan = <<>>
    /\ closed
    /\ pc' = [pc EXCEPT ![t] = "terminated"]
    /\ ret' = [ret EXCEPT ![t] = "Ok"]
    /\ lock' = {}
    /\ UNCHANGED <<chan, closed, sent, received, last_check, polls,
                   last_mark, delivered, confirmed, applied, marked, tree,
                   db_mined>>
    /\ UNCHANGED <<blocked, proverVars, managerVars>>

\* finalize_root: is_root_mined_multi_chain(mined_root) returns Ok(true), break
CheckRootTrue(t) ==
    /\ pc[t] = "polling"
    /\ last_check' = [last_check EXCEPT ![t] = "true"]
    /\ confirmed' = [confirmed EXCEPT ![t] = Append(@, mined_root(t))]
    /\ pc' = [pc EXCEPT ![t] = "advancing"]
    /\ UNCHANGED <<chan, closed, sent, received, lock, ret, polls,
                   last_mark, delivered, applied, marked, tree, db_mined>>
    /\ UNCHANGED <<blocked, proverVars, managerVars>>

\* CheckRootFalse giving the root up: the loop goes on to the next root
CheckRootFalseSkipped(t) ==
    /\ pc[t] = "polling"
    /\ last_check' = [last_check EXCEPT ![t] = "false"]
    /\ polls' = [polls EXCEPT ![t] = Min(@ + 1, MaxPolls)]
    /\ pc' = [pc EXCEPT ![t] = "awaiting"]
    /\ UNCHANGED <<chan, closed, sent, received, lock, ret, last_mark,
                   delivered, confirmed, applied, marked, tree, db_mined>>
    /\ UNCHANGED <<blocked, proverVars, managerVars>>

\* CheckRootFalse with a deadline: the task gives up at the MaxPolls-th false
CheckRootFalseDeadline(t) ==
    /\ pc[t] = "polling"
    /\ last_check' = [last_check EXCEPT ![t] = "false"]
    /\ polls' = [polls EXCEPT ![t] = Min(@ + 1, MaxPolls)]
    /\ IF polls[t] + 1 >= MaxPolls
       THEN /\ pc' = [pc EXCEPT ![t] = "terminated"]
            /\ ret' = [ret EXCEPT ![t] = "ErrCheck"]
            /\ lock' = {}
       ELSE /\ pc' = [pc EXCEPT ![t] = "sleeping"]
            /\ UNCHANGED <<ret, lock>>
    /\ UNCHANGED <<chan, closed, sent, received, last_mark, delivered,
                   confirmed, applied, marked, tree, db_mined>>
    /\ UNCHANGED <<blocked, proverVars, managerVars>>

\* finalize_root: is_root_mined_multi_chain(mined_root) returns Ok(false),
\* the task goes to sleep for FINALIZE_ROOT_SLEEP_TIME
CheckRootFalse(t) ==
    /\ pc[t] = "polling"
    /\ last_check' = [last_check EXCEPT ![t] = "false"]
    /\ polls' = [polls EXCEPT ![t] = Min(@ + 1, MaxPolls)]
    /\ pc' = [pc EXCEPT ![t] = "sleeping"]
    /\ UNCHANGED <<chan, closed, sent, received, lock, ret, last_mark,
                   delivered, confirmed, applied, marked, tree, db_mined>>
    /\ UNCHANGED <<blocked, proverVars, managerVars>>

\* CheckRootError with the error handled like a false result: sleep and retry
CheckRootErrorRetried(t) ==
    /\ pc[t] = "polling"
    /\ last_check' = [last_check EXCEPT ![t] = "error"]
    /\ pc' = [pc EXCEPT ![t] = "sleeping"]
    /\ UNCHANGED <<chan, closed, sent, received, lock, ret, polls, last_mark,
                   delivered, confirmed, applied, marked, tree, db_mined>>
    /\ UNCHANGED <<blocked, proverVars, managerVars>>

\* CheckRootError with the error taken for "finalized"
CheckRootErrorIgnored(t) ==
    /\ pc[t] = "polling"
    /\ last_check' = [last_check EXCEPT ![t] = "error"]
    /\ pc' = [pc EXCEPT ![t] = "advancing"]
    /\ UNCHANGED <<chan, closed, sent, received, lock, ret, polls, last_mark,
                   delivered, confirmed, applied, marked, tree, db_mined>>
    /\ UNCHANGED <<blocked, proverVars, managerVars>>

\* finalize_root: is_root_mined_multi_chain(mined_root) returns Err, the `?`
\* returns it from finalize_root, from the loop and from run()
CheckRootError(t) ==
    /\ pc[t] = "polling"
    /\ last_check' = [last_check EXCEPT ![t] = "error"]
    /\ pc' = [pc EXCEPT ![t] = "terminated"]
    /\ ret' = [ret EXCEPT ![t] = "ErrCheck"]
    /\ lock' = {}
    /\ UNCHANGED <<chan, closed, sent, received, polls, last_mark,
                   delivered, confirmed, applied, marked, tree, db_mined>>
    /\ UNCHANGED <<blocked, proverVars, managerVars>>

\* finalize_root: the sleep is over, the loop polls again
WakeUp(t) ==
    /\ pc[t] = "sleeping"
    /\ pc' = [pc EXCEPT ![t] = "polling"]
    /\ UNCHANGED <<chan, closed, sent, received, lock, ret, last_check,
                   polls, last_mark, delivered, confirmed, applied, marked,
                   tree, db_mined>>
    /\ UNCHANGED <<blocked, proverVars, managerVars>>

\* ApplyUpdates going on to the database write without advancing the tree
ApplyUpdatesSkipped(t) ==
    /\ pc[t] = "advancing"
    /\ pc' = [pc EXCEPT ![t] = "marking"]
    /\ UNCHANGED <<chan, closed, sent, received, lock, ret, last_check,
                   polls, last_mark, delivered, confirmed, applied, marked,
                   tree, db_mined>>
    /\ UNCHANGED <<blocked, proverVars, managerVars>>

\* finalize_root: finalized_tree.apply_updates_up_to(mined_root)
ApplyUpdates(t) ==
    /\ pc[t] = "advancing"
    /\ tree' = Append(tree, mined_root(t))
    /\ applied' = [applied EXCEPT ![t] = Append(@, mined_root(t))]
    /\ pc' = [pc EXCEPT ![t] = "marking"]
    /\ UNCHANGED <<chan, closed, sent, received, lock, ret, last_check,
                   polls, last_mark, delivered, confirmed, marked,
                   db_mined>>
    /\ UNCHANGED <<blocked, proverVars, managerVars>>

\* MarkRootOk with a database write that records nothing
MarkRootOkUnrecorded(t) ==
    /\ pc[t] = "marking"
    /\ marked' = [marked EXCEPT ![t] = Append(@, mined_root(t))]
    /\ last_mark' = [last_mark EXCEPT ![t] = "ok"]
    /\ pc' = [pc EXCEPT ![t] = "awaiting"]
    /\ UNCHANGED <<chan, closed, sent, received, lock, ret, last_check,
                   polls, delivered, confirmed, applied, tree, db_mined>>
    /\ UNCHANGED <<blocked, proverVars, managerVars>>

\* finalize_root: database.mark_root_as_mined(mined_root) returns Ok,
\* finalize_root returns Ok and the loop goes back to recv()
MarkRootOk(t) ==
    /\ pc[t] = "marking"
    /\ marked' = [marked EXCEPT ![t] = Append(@, mined_root(t))]
    /\ db_mined' = db_mined \cup {mined_root(t)}
    /\ last_mark' = [last_mark EXCEPT ![t] = "ok"]
    /\ pc' = [pc EXCEPT ![t] = "awaiting"]
    /\ UNCHANGED <<chan, closed, sent, received, lock, ret, last_check,
                   polls, delivered, confirmed, applied, tree>>
    /\ UNCHANGED <<blocked, proverVars, managerVars>>

\* MarkRootError putting the root back at the head of the channel
MarkRootErrorRequeued(t) ==
    /\ pc[t] = "marking"
    /\ marked' = [marked EXCEPT ![t] = Append(@, mined_root(t))]
    /\ last_mark' = [last_mark EXCEPT ![t] = "error"]
    /\ chan' = <<mined_root(t)>> \o chan
    /\ pc' = [pc EXCEPT ![t] = "terminated"]
    /\ ret' = [ret EXCEPT ![t] = "ErrDb"]
    /\ lock' = {}
    /\ UNCHANGED <<closed, sent, received, last_check, polls,
                   delivered, confirmed, applied, tree, db_mined>>
    /\ UNCHANGED <<blocked, proverVars, managerVars>>

\* MarkRootError with the failure dropped: the loop goes on
MarkRootErrorIgnored(t) ==
    /\ pc[t] = "marking"
    /\ marked' = [marked EXCEPT ![t] = Append(@, mined_root(t))]
    /\ last_mark' = [last_mark EXCEPT ![t] = "error"]
    /\ pc' = [pc EXCEPT ![t] = "awaiting"]
    /\ UNCHANGED <<chan, closed, sent, received, lock, ret, last_check,
                   polls, delivered, confirmed, applied, tree, db_mined>>
    /\ UNCHANGED <<blocked, proverVars, managerVars>>

\* finalize_root: database.mark_root_as_mined(mined_root) returns Err, the `?`
\* returns it from finalize_root, from the loop and from run()
MarkRootError(t) ==
    /\ pc[t] = "marking"
    /\ marked' = [marked EXCEPT ![t] = Append(@, mined_root(t))]
    /\ last_mark' = [last_mark EXCEPT ![t] = "error"]
    /\ pc' = [pc EXCEPT ![t] = "terminated"]
    /\ ret' = [ret EXCEPT ![t] = "ErrDb"]
    /\ lock' = {}
    /\ UNCHANGED <<chan, closed, sent, received, last_check, polls,
                   delivered, confirmed, applied, tree, db_mined>>
    /\ UNCHANGED <<blocked, proverVars, managerVars>>

(***************************************************************************)
(* Integers with their widths.  A usize (64 bits) is four 16-bit limbs,    *)
(* most significant first; a u32 is two such limbs.  A U256 is a natural   *)
(* number below 2^31 (the model draws only such values) or a digest.       *)
(***************************************************************************)
Limb == 0..65535

USizeOf(a, b, c, d) == <<a, b, c, d>>

\* TryIntoU32 as a truncating cast (start_index as u32)
TruncateToU32(x) == [ok |-> TRUE, value |-> <<x[3], x[4]>>]

\* u32::try_from(usize): succeeds iff the value is at most u32::MAX
TryIntoU32(x) ==
    IF x[1] = 0 /\ x[2] = 0
    THEN [ok |-> TRUE, value |-> <<x[3], x[4]>>]
    ELSE [ok |-> FALSE, value |-> <<0, 0>>]

\* u32::to_be_bytes
U32ToBeBytes(u) ==
    <<u[1] \div 256, u[1] % 256, u[2] \div 256, u[2] % 256>>

\* the w low-order bytes of n, most significant first
RECURSIVE BeBytes(_, _)
BeBytes(n, w) ==
    IF w = 0 THEN <<>> ELSE Append(BeBytes(n \div 256, w - 1), n % 256)

\* size_of::<U256>()
U256Size == 32

\* ToBigEndian writing the least significant byte first
ToLittleEndian(v) ==
    [i \in 1..U256Size |-> BeBytes(v, U256Size)[U256Size + 1 - i]]

\* U256::to_big_endian into a [u8; 32]
ToBigEndian(v) == BeBytes(v, U256Size)

RECURSIVE Concat(_)
Concat(ss) == IF ss = <<>> THEN <<>> ELSE Head(ss) \o Concat(Tail(ss))

\* keccak256 as an ideal hash: the digest stands for its preimage
Keccak256(bytes) == [keccak256 |-> bytes]

\* the byte string compute_input_hash feeds to keccak256
InputHashBytes(start_index, pre_root, post_root, identity_commitments) ==
    U32ToBeBytes(start_index)
        \o ToBigEndian(pre_root)
        \o ToBigEndian(post_root)
        \o Concat([i \in 1..Len(identity_commitments) |->
                      ToBigEndian(identity_commitments[i])])

compute_input_hash(start_index, pre_root, post_root, identity_commitments) ==
    Keccak256(InputHashBytes(start_index, pre_root, post_root,
                             identity_commitments))

(***************************************************************************)
(* Results (anyhow::Result): status, payload and error message.            *)
(***************************************************************************)
Ok(proof, tx_id) ==
    [status |-> "Ok", proof |-> proof, tx_id |-> tx_id, error |-> <<>>]

Err(message) ==
    [status |-> "Err", proof |-> <<>>, tx_id |-> <<>>, error |-> message]

BatchSizeMismatch == <<"Provided batch does not match prover batch size.">>
TryFromIntError == <<"out of range integral type conversion attempted">>
UrlError == <<"url::ParseError">>
TransportError == <<"reqwest::Error">>
\* RequestBuilder::build fails with a reqwest::Error as well
BuilderError == TransportError
JsonError == <<"serde_json::Error">>

\* impl Display for ProverError
FormatProverError(error) ==
    <<"PROVER FAILURE: Code = ", error.code, ", Message = ", error.message>>

(***************************************************************************)
(* The prover client.                                                      *)
(***************************************************************************)
\* number of field elements of a proof
ProofLen == 8

\* serde_json::from_str::<Proof>: a proof is the array of its eight elements
ParseProof(json) ==
    IF json.type = "array" /\ Len(json.items) = ProofLen
    THEN [ok |-> TRUE, proof |-> json.items]
    ELSE [ok |-> FALSE, proof |-> <<>>]

\* serde_json::from_str::<ProverError>: the derived deserializer takes an
\* object with the string fields code and message (other fields are
\* ignored), or an array of exactly two strings
ParseProverError(json) ==
    IF json.type = "object" /\ {"code", "message"} \subseteq DOMAIN json.fields
    THEN [ok |-> TRUE, code |-> json.fields.code,
          message |-> json.fields.message]
    ELSE IF json.type = "array" /\ Len(json.items) = 2
    THEN [ok |-> TRUE, code |-> json.items[1], message |-> json.items[2]]
    ELSE [ok |-> FALSE, code |-> <<>>, message |-> <<>>]

\* BatchSizeDiffers rejecting only the batches that are too long
BatchSizeExceeds(prover, identities) ==
    Len(identities) > prover.batch_size

\* generate_proof: identities.len() != self.batch_size
BatchSizeDiffers(prover, identities) ==
    Len(identities) # prover.batch_size

\* BuildProofInput with the commitments collected in reverse
BuildProofInputReversed(start_index, pre_root, post_root, identities) ==
    LET n == Len(identities)
        identity_commitments ==
            [i \in 1..n |-> identities[n + 1 - i].commitment]
        input_hash ==
            compute_input_hash(start_index, pre_root, post_root,
                               identity_commitments)
        merkle_proofs ==
            [i \in 1..n |-> identities[i].merkle_proof]
    IN  [input_hash |-> input_hash,
         start_index |-> start_index,
         pre_root |-> pre_root,
         post_root |-> post_root,
         identity_commitments |-> identity_commitments,
         merkle_proofs |-> merkle_proofs]

\* generate_proof: the ProofInput built from the arguments
BuildProofInput(start_index, pre_root, post_root, identities) ==
    LET identity_commitments ==
            [i \in 1..Len(identities) |-> identities[i].commitment]
        input_hash ==
            compute_input_hash(start_index, pre_root, post_root,
                               identity_commitments)
        merkle_proofs ==
            [i \in 1..Len(identities) |-> identities[i].merkle_proof]
    IN  [input_hash |-> input_hash,
         start_index |-> start_index,
         pre_root |-> pre_root,
         post_root |-> post_root,
         identity_commitments |-> identity_commitments,
         merkle_proofs |-> merkle_proofs]

\* ClassifyResponse without the fallback to the error shape
ClassifyResponseProofOnly(json) ==
    IF ParseProof(json).ok
    THEN Ok(ParseProof(json).proof, <<>>)
    ELSE Err(JsonError)

\* generate_proof: the result for the response text json
ClassifyResponse(json) ==
    IF ParseProof(json).ok
    THEN Ok(ParseProof(json).proof, <<>>)
    ELSE IF ParseProverError(json).ok
    THEN Err(FormatProverError(ParseProverError(json)))
    ELSE Err(JsonError)

\* generate_proof sending the request a second time after a transport failure
generate_proof_retrying(prover, start_index, pre_root, post_root, identities, service) ==
    IF BatchSizeDiffers(prover, identities)
    THEN [result |-> Err(BatchSizeMismatch), requests |-> <<>>]
    ELSE LET proof_input ==
                 BuildProofInput(start_index, pre_root, post_root, identities)
             request == [method |-> "POST", endpoint |-> "prove",
                         json |-> proof_input]
         IN  IF service.kind = "join_error"
             THEN [result |-> Err(UrlError), requests |-> <<>>]
             ELSE IF service.kind = "build_error"
             THEN [result |-> Err(BuilderError), requests |-> <<>>]
             ELSE IF service.kind = "transport_error"
             THEN [result |-> Err(TransportError),
                   requests |-> <<request, request>>]
             ELSE [result |-> ClassifyResponse(service.body),
                   requests |-> <<request>>]

\* Prover::generate_proof; service is what the proving service does on this
\* call. Yields the returned value and the HTTP requests issued.
generate_proof(prover, start_index, pre_root, post_root, identities, service) ==
    IF BatchSizeDiffers(prover, identities)
    THEN [result |-> Err(BatchSizeMismatch), requests |-> <<>>]
    ELSE LET proof_input ==
                 BuildProofInput(start_index, pre_root, post_root, identities)
             request == [method |-> "POST", endpoint |-> "prove",
                         json |-> proof_input]
         IN  IF service.kind = "join_error"
             THEN [result |-> Err(UrlError), requests |-> <<>>]
             ELSE IF service.kind = "build_error"
             THEN [result |-> Err(BuilderError), requests |-> <<>>]
             ELSE IF service.kind = "transport_error"
             THEN [result |-> Err(TransportError), requests |-> <<request>>]
             ELSE [result |-> ClassifyResponse(service.body),
                   requests |-> <<request>>]

(***************************************************************************)
(* The identity manager.                                                   *)
(***************************************************************************)
\* IdentityManager::prepare_proof
prepare_proof(prover, start_index, pre_root, post_root, identities, service) ==
    LET actual_start_index == TryIntoU32(start_index)
    IN  IF ~actual_start_index.ok
        THEN [result |-> Err(TryFromIntError), requests |-> <<>>]
        ELSE generate_proof(prover, actual_start_index.value, pre_root,
                            post_root, identities, service)

\* Proof -> [U256; 8]
ProofToArray(proof_data) == [i \in 1..ProofLen |-> proof_data[i]]

\* register_identities: the registerIdentities call of the contract ABI
RegisterIdentitiesTransaction(proof_points_array, pre_root, actual_start_index, identities, post_root) ==
    [function |-> "registerIdentities",
     args |-> <<proof_points_array, pre_root, actual_start_index,
                identities, post_root>>]

\* register_identities answering a rejected submission with an error of its
\* own and without the expect-mining flag
register_identities_unflagged(start_index, pre_root, post_root, identity_commitments, proof_data, ethereum) ==
    LET actual_start_index == TryIntoU32(start_index)
    IN  IF ~actual_start_index.ok
        THEN [result |-> Err(TryFromIntError), transactions |-> <<>>]
        ELSE LET proof_points_array == ProofToArray(proof_data)
                 identities ==
                     [i \in 1..Len(identity_commitments) |->
                         identity_commitments[i].commitment]
                 register_identities_transaction ==
                     RegisterIdentitiesTransaction(proof_points_array,
                         pre_root, actual_start_index.value, identities,
                         post_root)
                 submission == [tx |-> register_identities_transaction,
                                expect_mining |-> FALSE]
             IN  IF ethereum.ok
                 THEN [result |-> Ok(<<>>, <<ethereum.tx_id>>),
                       transactions |-> <<submission>>]
                 ELSE [result |-> Err(<<"transaction submission failed">>),
                       transactions |-> <<submission>>]

\* IdentityManager::register_identities; ethereum is what send_transaction
\* does on this call. Yields the returned value and the transactions handed
\* to the Ethereum client.
register_identities(start_index, pre_root, post_root, identity_commitments, proof_data, ethereum) ==
    LET actual_start_index == TryIntoU32(start_index)
    IN  IF ~actual_start_index.ok
        THEN [result |-> Err(TryFromIntError), transactions |-> <<>>]
        ELSE LET proof_points_array == ProofToArray(proof_data)
                 identities ==
                     [i \in 1..Len(identity_commitments) |->
                         identity_commitments[i].commitment]
                 register_identities_transaction ==
                     RegisterIdentitiesTransaction(proof_points_array,
                         pre_root, actual_start_index.value, identities,
                         post_root)
                 submission == [tx |-> register_identities_transaction,
                                expect_mining |-> TRUE]
             IN  IF ethereum.ok
                 THEN [result |-> Ok(<<>>, <<ethereum.tx_id>>),
                       transactions |-> <<submission>>]
                 ELSE [result |-> Err(<<ethereum.message>>),
                       transactions |-> <<submission>>]

\* the digits 0-9a-f as one-character strings
HexChars ==
    <<"0", "1", "2", "3", "4", "5", "6", "7", "8", "9",
      "a", "b", "c", "d", "e", "f">>

\* format!("{n}") of an unsigned integer: its decimal digits
RECURSIVE DecimalDigits(_)
DecimalDigits(n) ==
    IF n < 10
    THEN <<HexChars[n + 1]>>
    ELSE Append(DecimalDigits(n \div 10), HexChars[(n % 10) + 1])

ProviderError == <<"ethers::providers::ProviderError">>
ContractError == <<"ethers::contract::ContractError">>
NoCodeDeployed == "No contract code is deployed at the provided address."
SignerNotOwner == "Signer is not the owner of the identity manager contract."
ReadOnlyPanic == "Cannot currently continue in read-only mode."

\* the value of a call of new(): Ok with the fields of Self, Err with the
\* error returned, or panic with the panic message
Manager(status, error, logged, tree_depth, prover_map) ==
    [status |-> status, error |-> error, logged |-> logged,
     tree_depth |-> tree_depth, prover_map |-> prover_map]

\* new() continuing in read-only mode when the signer is not the owner
new_read_only(options, signer, prover_map_internal, chain) ==
    LET logged == IF chain.code.empty THEN <<NoCodeDeployed>> ELSE <<>>
    IN  IF ~chain.code.ok
        THEN Manager("Err", ProviderError, <<>>, 0, <<>>)
        ELSE IF ~chain.owner.ok
        THEN Manager("Err", ContractError, logged, 0, <<>>)
        ELSE IF chain.owner.value # signer
        THEN Manager("Ok", <<>>, Append(logged, SignerNotOwner),
                     options.tree_depth, prover_map_internal)
        ELSE Manager("Ok", <<>>, logged, options.tree_depth,
                     prover_map_internal)

\* IdentityManager::new; signer is ethereum.address(), chain is what the
\* provider answers to get_code and to the owner() call
new(options, signer, prover_map_internal, chain) ==
    LET logged == IF chain.code.empty THEN <<NoCodeDeployed>> ELSE <<>>
    IN  IF ~chain.code.ok
        THEN Manager("Err", ProviderError, <<>>, 0, <<>>)
        ELSE IF ~chain.owner.ok
        THEN Manager("Err", ContractError, logged, 0, <<>>)
        ELSE IF chain.owner.value # signer
        THEN Manager("panic", <<ReadOnlyPanic>>, Append(logged, SignerNotOwner),
                     0, <<>>)
        ELSE Manager("Ok", <<>>, logged, options.tree_depth,
                     prover_map_internal)

\* validate_merkle_proofs accepting every proof that is not longer than the
\* tree is deep
validate_merkle_proofs_at_most(self, identity_commitments) ==
    LET bad == {i \in 1..Len(identity_commitments) :
                   Len(identity_commitments[i].merkle_proof) > self.tree_depth}
    IN  IF bad = {}
        THEN Ok(<<>>, <<>>)
        ELSE LET id == identity_commitments[
                           CHOOSE i \in bad : \A j \in bad : i <= j]
             IN  Err(<<"Length of merkle proof (">>
                     \o DecimalDigits(Len(id.merkle_proof))
                     \o <<") did not match tree depth (">>
                     \o DecimalDigits(self.tree_depth) \o <<")">>)

\* IdentityManager::validate_merkle_proofs: the first identity whose proof
\* has another length than tree_depth decides the error
validate_merkle_proofs(self, identity_commitments) ==
    LET bad == {i \in 1..Len(identity_commitments) :
                   Len(identity_commitments[i].merkle_proof) # self.tree_depth}
    IN  IF bad = {}
        THEN Ok(<<>>, <<>>)
        ELSE LET id == identity_commitments[
                           CHOOSE i \in bad : \A j \in bad : i <= j]
             IN  Err(<<"Length of merkle proof (">>
                     \o DecimalDigits(Len(id.merkle_proof))
                     \o <<") did not match tree depth (">>
                     \o DecimalDigits(self.tree_depth) \o <<")">>)

\* the registry of provers keyed by batch size, built from the configured
\* provers
ProverMapOf(provers) ==
    [n \in {p.batch_size : p \in provers} |->
        CHOOSE p \in provers : p.batch_size = n]

\* ProverMap::get: the prover registered under the key batch_size, if any
ProverMapGet(prover_map, batch_size) ==
    IF batch_size \in DOMAIN prover_map
    THEN <<prover_map[batch_size]>>
    ELSE <<>>

\* Ok(&Prover)
OkProver(prover) ==
    [status |-> "Ok", proof |-> <<>>, tx_id |-> <<>>, error |-> <<>>,
     prover |-> prover]

\* get_suitable_prover falling back to the smallest prover that can hold the
\* batch when none is registered for its size
get_suitable_prover_fallback(self, num_identities) ==
    LET prover == ProverMapGet(self.prover_map, num_identities)
        larger == {n \in DOMAIN self.prover_map : n >= num_identities}
    IN  IF prover # <<>>
        THEN OkProver(prover[1])
        ELSE IF larger # {}
        THEN OkProver(self.prover_map[
                          CHOOSE n \in larger : \A m \in larger : n <= m])
        ELSE Err(<<"No available prover for batch size: ">>
                 \o DecimalDigits(num_identities))

\* IdentityManager::get_suitable_prover
get_suitable_prover(self, num_identities) ==
    LET prover == ProverMapGet(self.prover_map, num_identities)
    IN  IF prover = <<>>
        THEN Err(<<"No available prover for batch size: ">>
                 \o DecimalDigits(num_identities))
        ELSE OkProver(prover[1])

\* U256::from_big_endian: the number a byte string denotes, most significant
\* byte first
RECURSIVE FromBigEndian(_)
FromBigEndian(bytes) ==
    IF bytes = <<>>
    THEN 0
    ELSE FromBigEndian(SubSeq(bytes, 1, Len(bytes) - 1)) * 256
             + bytes[Len(bytes)]

\* U256::from(Field): the conversion goes through the big-endian bytes
FieldToU256(root) == FromBigEndian(ToBigEndian(root))

\* assert_latest_root succeeding whatever the contract answers
assert_latest_root_unchecked(self, root, chain) ==
    IF ~chain.latest_root.ok
    THEN Err(ContractError)
    ELSE Ok(<<>>, <<>>)

\* IdentityManager::assert_latest_root; chain is what the contract answers
\* to the latestRoot() call
assert_latest_root(self, root, chain) ==
    IF ~chain.latest_root.ok
    THEN Err(ContractError)
    ELSE LET latest_root == chain.latest_root.value
             processed_root == FieldToU256(root)
         IN  IF processed_root = latest_root
             THEN Ok(<<>>, <<>>)
             ELSE Err(DecimalDigits(root) \o <<" is not latest root.">>)

(***************************************************************************)
(* Inputs of the calls and behaviours of the collaborators.                *)
(***************************************************************************)
SeqsUpTo(S, n) == UNION {[1..k -> S] : k \in 0..n}

USizeValues ==
    { USizeOf(0, 0, 0, 0),                  \* 0
      USizeOf(0, 0, 0, 1),                  \* 1
      USizeOf(0, 0, 65535, 65535),          \* 2^32 - 1
      USizeOf(0, 1, 0, 0),                  \* 2^32
      USizeOf(65535, 65535, 65535, 65535) } \* 2^64 - 1

U32Values == { <<0, 0>>, <<0, 1>>, <<65535, 65535>> }

PreRoots == {1, 258}
PostRoots == {2, 16909060}

IdentityPool ==
    { [commitment |-> 1, merkle_proof |-> <<0, 7>>],
      [commitment |-> 2, merkle_proof |-> <<1, 7>>],
      [commitment |-> 3, merkle_proof |-> <<0>>] }

IdentityLists == SeqsUpTo(IdentityPool, MaxIdentities)

Provers == {[batch_size |-> n] : n \in 0..MaxBatchSize}

ProofA == <<11, 12, 13, 14, 15, 16, 17, 18>>
ProofB == <<21, 22, 23, 24, 25, 26, 27, 28>>
Proofs == {ProofA, ProofB}

JsonArray(items) == [type |-> "array", items |-> items, fields |-> <<>>]
JsonObject(fields) == [type |-> "object", items |-> <<>>, fields |-> fields]
JsonOther == [type |-> "other", items |-> <<>>, fields |-> <<>>]

JsonString(chars) == [type |-> "string", items |-> chars, fields |-> <<>>]
JsonNumber(digits) == [type |-> "number", items |-> digits, fields |-> <<>>]

(***************************************************************************)
(* The JSON form of a ProofInput (serde, rename_all = "camelCase").  A     *)
(* string is the sequence of its characters, a number that of its digits.  *)
(***************************************************************************)
\* the digits of n in base 16, without leading zeros
RECURSIVE HexDigits(_)
HexDigits(n) ==
    IF n < 16
    THEN <<HexChars[n + 1]>>
    ELSE Append(HexDigits(n \div 16), HexChars[(n % 16) + 1])

\* the value of a character as a digit (0-15)
DigitValue(c) == CHOOSE d \in 0..15 : HexChars[d + 1] = c

IsHexDigit(c) == \E d \in 0..15 : HexChars[d + 1] = c
IsDecimalDigit(c) == \E d \in 0..9 : HexChars[d + 1] = c

\* the number a string of hexadecimal digits denotes
RECURSIVE FromHexDigits(_)
FromHexDigits(chars) ==
    IF chars = <<>>
    THEN 0
    ELSE FromHexDigits(SubSeq(chars, 1, Len(chars) - 1)) * 16
             + DigitValue(chars[Len(chars)])

\* Serialize for U256: the string 0x followed by the hexadecimal digits
SerializeU256(v) == JsonString(<<"0", "x">> \o HexDigits(v))

\* Deserialize for U256: a string of hexadecimal digits after the prefix 0x
DeserializeU256(json) ==
    IF /\ json.type = "string"
       /\ Len(json.items) >= 3
       /\ json.items[1] = "0"
       /\ json.items[2] = "x"
       /\ \A i \in 3..Len(json.items) : IsHexDigit(json.items[i])
    THEN [ok |-> TRUE,
          value |-> FromHexDigits(SubSeq(json.items, 3, Len(json.items)))]
    ELSE [ok |-> FALSE, value |-> 0]

\* the decimal digits of a u32 held in two limbs, by division by ten
RECURSIVE U32DecimalDigits(_)
U32DecimalDigits(u) ==
    LET rest == (u[1] % 10) * 65536 + u[2]
        quotient == <<u[1] \div 10, rest \div 10>>
    IN  IF u[1] = 0 /\ u[2] < 10
        THEN <<HexChars[u[2] + 1]>>
        ELSE Append(U32DecimalDigits(quotient), HexChars[(rest % 10) + 1])

\* Serialize for u32: a JSON number
SerializeU32(u) == JsonNumber(U32DecimalDigits(u))

\* the u32 a string of decimal digits denotes; not ok when it exceeds
\* u32::MAX
RECURSIVE ParseU32(_)
ParseU32(digits) ==
    IF digits = <<>>
    THEN [ok |-> TRUE, value |-> <<0, 0>>]
    ELSE LET front == ParseU32(SubSeq(digits, 1, Len(digits) - 1))
             low == front.value[2] * 10 + DigitValue(digits[Len(digits)])
             high == front.value[1] * 10 + low \div 65536
         IN  IF front.ok /\ high <= 65535
             THEN [ok |-> TRUE, value |-> <<high, low % 65536>>]
             ELSE [ok |-> FALSE, value |-> <<0, 0>>]

\* Deserialize for u32: a non-negative JSON integer of at most u32::MAX
DeserializeU32(json) ==
    IF /\ json.type = "number"
       /\ json.items # <<>>
       /\ \A i \in 1..Len(json.items) : IsDecimalDigit(json.items[i])
    THEN ParseU32(json.items)
    ELSE [ok |-> FALSE, value |-> <<0, 0>>]

\* Serialize for Vec<U256>
SerializeU256Vec(v) == JsonArray([i \in 1..Len(v) |-> SerializeU256(v[i])])

\* Deserialize for Vec<U256>
DeserializeU256Vec(json) ==
    IF /\ json.type = "array"
       /\ \A i \in 1..Len(json.items) : DeserializeU256(json.items[i]).ok
    THEN [ok |-> TRUE,
          value |-> [i \in 1..Len(json.items) |->
                        DeserializeU256(json.items[i]).value]]
    ELSE [ok |-> FALSE, value |-> <<>>]

\* Serialize for Vec<Vec<U256>>
SerializeU256VecVec(v) ==
    JsonArray([i \in 1..Len(v) |-> SerializeU256Vec(v[i])])

\* Deserialize for Vec<Vec<U256>>
DeserializeU256VecVec(json) ==
    IF /\ json.type = "array"
       /\ \A i \in 1..Len(json.items) : DeserializeU256Vec(json.items[i]).ok
    THEN [ok |-> TRUE,
          value |-> [i \in 1..Len(json.items) |->
                        DeserializeU256Vec(json.items[i]).value]]
    ELSE [ok |-> FALSE, value |-> <<>>]

\* SerializeProofInput without rename_all: the fields under their Rust names
SerializeProofInputSnakeCase(proof_input) ==
    JsonObject(
        [input_hash |-> SerializeU256(proof_input.input_hash),
         start_index |-> SerializeU32(proof_input.start_index),
         pre_root |-> SerializeU256(proof_input.pre_root),
         post_root |-> SerializeU256(proof_input.post_root),
         identity_commitments |->
             SerializeU256Vec(proof_input.identity_commitments),
         merkle_proofs |-> SerializeU256VecVec(proof_input.merkle_proofs)])

\* Serialize for ProofInput: an object of the six fields in camelCase
SerializeProofInput(proof_input) ==
    JsonObject(
        [inputHash |-> SerializeU256(proof_input.input_hash),
         startIndex |-> SerializeU32(proof_input.start_index),
         preRoot |-> SerializeU256(proof_input.pre_root),
         postRoot |-> SerializeU256(proof_input.post_root),
         identityCommitments |->
             SerializeU256Vec(proof_input.identity_commitments),
         merkleProofs |-> SerializeU256VecVec(proof_input.merkle_proofs)])

ProofInputKeys ==
    {"inputHash", "startIndex", "preRoot", "postRoot", "identityCommitments",
     "merkleProofs"}

NoProofInput ==
    [input_hash |-> 0, start_index |-> <<0, 0>>, pre_root |-> 0,
     post_root |-> 0, identity_commitments |-> <<>>, merkle_proofs |-> <<>>]

\* the ProofInput made of six deserialized fields, when each of them is ok
ProofInputOf(input_hash, start_index, pre_root, post_root, identity_commitments, merkle_proofs) ==
    IF /\ input_hash.ok
       /\ start_index.ok
       /\ pre_root.ok
       /\ post_root.ok
       /\ identity_commitments.ok
       /\ merkle_proofs.ok
    THEN [ok |-> TRUE,
          value |-> [input_hash |-> input_hash.value,
                     start_index |-> start_index.value,
                     pre_root |-> pre_root.value,
                     post_root |-> post_root.value,
                     identity_commitments |-> identity_commitments.value,
                     merkle_proofs |-> merkle_proofs.value]]
    ELSE [ok |-> FALSE, value |-> NoProofInput]

\* Deserialize for ProofInput: an object that has the six camelCase fields
\* (other fields are ignored), or an array of exactly the six values
DeserializeProofInput(json) ==
    IF json.type = "object" /\ ProofInputKeys \subseteq DOMAIN json.fields
    THEN ProofInputOf(DeserializeU256(json.fields.inputHash),
                      DeserializeU32(json.fields.startIndex),
                      DeserializeU256(json.fields.preRoot),
                      DeserializeU256(json.fields.postRoot),
                      DeserializeU256Vec(json.fields.identityCommitments),
                      DeserializeU256VecVec(json.fields.merkleProofs))
    ELSE IF json.type = "array" /\ Len(json.items) = 6
    THEN ProofInputOf(DeserializeU256(json.items[1]),
                      DeserializeU32(json.items[2]),
                      DeserializeU256(json.items[3]),
                      DeserializeU256(json.items[4]),
                      DeserializeU256Vec(json.items[5]),
                      DeserializeU256VecVec(json.items[6]))
    ELSE [ok |-> FALSE, value |-> NoProofInput]

\* values of the inputHash field of a request
InputHashes == {0, 41689, 2147483647}

\* the requests that are serialized
ProofInputs ==
    { [input_hash |-> input_hash, start_index |-> start_index,
       pre_root |-> pre_root, post_root |-> post_root,
       identity_commitments |->
           [i \in 1..Len(identities) |-> identities[i].commitment],
       merkle_proofs |->
           [i \in 1..Len(identities) |-> identities[i].merkle_proof]] :
        input_hash \in InputHashes, start_index \in U32Values,
        pre_root \in PreRoots, post_root \in PostRoots,
        identities \in IdentityLists }

Bodies ==
    { JsonArray(ProofA),
      JsonArray(ProofB),
      JsonArray(<<11, 12, 13, 14, 15, 16, 17>>),
      JsonArray(<<"0x1", "0x2">>),
      JsonArray(<<>>),
      JsonObject([code |-> "Oh no!", message |-> "Things went wrong."]),
      JsonObject([code |-> "E2", message |-> "bad", detail |-> "more"]),
      JsonObject([code |-> "Oh no!"]),
      JsonOther }

ServiceOutcomes ==
    { [kind |-> "join_error", body |-> JsonOther],
      [kind |-> "build_error", body |-> JsonOther],
      [kind |-> "transport_error", body |-> JsonOther] }
    \cup {[kind |-> "response", body |-> b] : b \in Bodies}

EthereumOutcomes ==
    { [ok |-> TRUE, tx_id |-> "tx-1", message |-> ""],
      [ok |-> TRUE, tx_id |-> "tx-2", message |-> ""],
      [ok |-> FALSE, tx_id |-> "", message |-> "nonce too low"],
      [ok |-> FALSE, tx_id |-> "", message |-> "insufficient funds"] }

NoProver == [batch_size |-> 0]
NoService == [kind |-> "none", body |-> JsonOther]
NoEthereum == [ok |-> FALSE, tx_id |-> "", message |-> ""]

\* no call has been made
ProverIdle ==
    /\ call = [op |-> "none", prover |-> NoProver, start_index |-> <<>>,
               pre_root |-> 0, post_root |-> 0, identities |-> <<>>,
               proof_data |-> <<>>, service |-> NoService,
               ethereum |-> NoEthereum, prepared |-> FALSE]
    /\ result = Ok(<<>>, <<>>)
    /\ requests = <<>>
    /\ transactions = <<>>

\* a caller invokes Prover::generate_proof
GenerateProofCall ==
    /\ call.op = "none"
    /\ \E prover \in Provers, start_index \in U32Values, pre_root \in PreRoots,
       post_root \in PostRoots, identities \in IdentityLists,
       service \in ServiceOutcomes :
        LET out == generate_proof(prover, start_index, pre_root, post_root,
                                  identities, service)
        IN  /\ call' = [op |-> "generate_proof", prover |-> prover,
                        start_index |-> start_index, pre_root |-> pre_root,
                        post_root |-> post_root, identities |-> identities,
                        proof_data |-> <<>>, service |-> service,
                        ethereum |-> NoEthereum, prepared |-> FALSE]
            /\ result' = out.result
            /\ requests' = out.requests
            /\ transactions' = <<>>
            /\ UNCHANGED <<finVars, managerVars>>

\* a caller invokes IdentityManager::prepare_proof
PrepareProofCall ==
    /\ call.op = "none"
    /\ \E prover \in Provers, start_index \in USizeValues, pre_root \in PreRoots,
       post_root \in PostRoots, identities \in IdentityLists,
       service \in ServiceOutcomes :
        LET out == prepare_proof(prover, start_index, pre_root, post_root,
                                 identities, service)
        IN  /\ call' = [op |-> "prepare_proof", prover |-> prover,
                        start_index |-> start_index, pre_root |-> pre_root,
                        post_root |-> post_root, identities |-> identities,
                        proof_data |-> <<>>, service |-> service,
                        ethereum |-> NoEthereum, prepared |-> FALSE]
            /\ result' = out.result
            /\ requests' = out.requests
            /\ transactions' = <<>>
            /\ UNCHANGED <<finVars, managerVars>>

\* Ethereum::send_transaction accepted the transaction: it is pending now
SendTransaction(pending_transactions, tx_id) ==
    Append(pending_transactions, tx_id)

\* IdentityManager::register_identities is invoked; prepared says that the
\* call submits the batch and the proof of the prepare_proof call before it,
\* whose request then stays on record next to the transaction
RegisterIdentities(start_index, pre_root, post_root, identities, proof_data, ethereum, prepared) ==
    LET out == register_identities(start_index, pre_root, post_root,
                                   identities, proof_data, ethereum)
    IN  /\ call' = [op |-> "register_identities",
                    prover |-> IF prepared THEN call.prover ELSE NoProver,
                    start_index |-> start_index, pre_root |-> pre_root,
                    post_root |-> post_root, identities |-> identities,
                    proof_data |-> proof_data,
                    service |-> IF prepared THEN call.service ELSE NoService,
                    ethereum |-> ethereum, prepared |-> prepared]
        /\ result' = out.result
        /\ requests' = IF prepared THEN requests ELSE <<>>
        /\ transactions' = out.transactions
        /\ pending' = IF out.result.status = "Ok"
                      THEN SendTransaction(pending, out.result.tx_id[1])
                      ELSE pending
        /\ UNCHANGED <<finVars, manager, construction, drain>>

\* a caller invokes IdentityManager::register_identities as its first call
RegisterIdentitiesCall ==
    /\ call.op = "none"
    /\ \E start_index \in USizeValues, pre_root \in PreRoots,
       post_root \in PostRoots, identities \in IdentityLists,
       proof_data \in Proofs, ethereum \in EthereumOutcomes :
        RegisterIdentities(start_index, pre_root, post_root, identities,
                              proof_data, ethereum, FALSE)

\* the caller of a successful prepare_proof submits that batch with the proof
\* it obtained
RegisterPreparedBatch ==
    /\ call.op = "prepare_proof"
    /\ result.status = "Ok"
    /\ \E ethereum \in EthereumOutcomes :
        RegisterIdentities(call.start_index, call.pre_root, call.post_root,
                              call.identities, result.proof, ethereum, TRUE)

\* a request is serialized to its JSON form and the JSON form is parsed back
ProofInputSerde ==
    /\ call.op = "none"
    /\ \E proof_input \in ProofInputs :
        LET json == SerializeProofInput(proof_input)
            parsed == DeserializeProofInput(json)
        IN  /\ call' = [op |-> "proof_input_serde",
                        proof_input |-> proof_input, json |-> json,
                        parsed |-> parsed.value]
            /\ result' = IF parsed.ok THEN Ok(<<>>, <<>>) ELSE Err(JsonError)
    /\ UNCHANGED <<finVars, managerVars, requests, transactions>>

(***************************************************************************)
(* The identity manager as an object: construction, the calls that read    *)
(* its fields, and the drain of the pending transactions.                  *)
(***************************************************************************)
Addresses == {"0xa11ce", "0xb0b"}

ManagerOptions == {[tree_depth |-> d] : d \in 1..MaxTreeDepth}

ProverMaps == {ProverMapOf(provers) : provers \in SUBSET Provers}

\* answers of the provider to get_code and of the contract to owner()
ConstructionAnswers ==
    { [code |-> code, owner |-> owner] :
        code \in { [ok |-> FALSE, empty |-> FALSE],
                   [ok |-> TRUE, empty |-> TRUE],
                   [ok |-> TRUE, empty |-> FALSE] },
        owner \in {[ok |-> FALSE, value |-> ""]}
                      \cup {[ok |-> TRUE, value |-> a] : a \in Addresses} }

\* answers of the contract to latestRoot()
LatestRootAnswers ==
    { [latest_root |-> [ok |-> FALSE, value |-> 0]] }
        \cup {[latest_root |-> [ok |-> TRUE, value |-> r]] :
                 r \in PreRoots \cup PostRoots}

\* the proving service as the identity manager's batches meet it
BatchServiceOutcomes ==
    { [kind |-> "transport_error", body |-> JsonOther],
      [kind |-> "response", body |-> JsonArray(ProofA)] }

TxId(n) == <<"tx", n>>

TxError == <<"ethereum::write::TxError">>

NoConstruction ==
    [options |-> [tree_depth |-> 0], signer |-> "", prover_map |-> <<>>,
     chain |-> [code |-> [ok |-> FALSE, empty |-> FALSE],
                owner |-> [ok |-> FALSE, value |-> ""]]]

DrainIdle == [pc |-> "idle", fetched |-> <<>>, mined |-> <<>>]

\* new() has not been called
ManagerUnconstructed ==
    /\ manager = Manager("none", <<>>, <<>>, 0, <<>>)
    /\ construction = NoConstruction
    /\ pending = <<>>
    /\ drain = DrainIdle

\* an identity manager constructed over a deployed contract the signer owns
ManagerReady ==
    /\ construction =
           [options |-> [tree_depth |-> MaxTreeDepth], signer |-> "0xa11ce",
            prover_map |-> ProverMapOf(Provers),
            chain |-> [code |-> [ok |-> TRUE, empty |-> FALSE],
                       owner |-> [ok |-> TRUE, value |-> "0xa11ce"]]]
    /\ manager = new(construction.options, construction.signer,
                     construction.prover_map, construction.chain)
    /\ pending = <<>>
    /\ drain = DrainIdle

\* the service constructs the identity manager
New ==
    /\ manager.status = "none"
    /\ \E options \in ManagerOptions, signer \in Addresses,
          prover_map_internal \in ProverMaps, chain \in ConstructionAnswers :
        /\ construction' = [options |-> options, signer |-> signer,
                            prover_map |-> prover_map_internal,
                            chain |-> chain]
        /\ manager' = new(options, signer, prover_map_internal, chain)
    /\ UNCHANGED <<finVars, proverVars, pending, drain>>

\* no call is in progress on the constructed manager and nothing was
\* submitted yet
ManagerAtRest ==
    /\ manager.status = "Ok"
    /\ call.op = "none"
    /\ transactions = <<>>

\* a caller invokes validate_merkle_proofs
ValidateMerkleProofsCall ==
    /\ ManagerAtRest
    /\ \E identities \in IdentityLists :
        /\ call' = [op |-> "validate_merkle_proofs",
                    identities |-> identities]
        /\ result' = validate_merkle_proofs(manager, identities)
    /\ UNCHANGED <<finVars, managerVars, requests, transactions>>

\* a caller invokes get_suitable_prover
GetSuitableProverCall ==
    /\ ManagerAtRest
    /\ \E num_identities \in 0..MaxIdentities :
        /\ call' = [op |-> "get_suitable_prover",
                    num_identities |-> num_identities]
        /\ result' = get_suitable_prover(manager, num_identities)
    /\ UNCHANGED <<finVars, managerVars, requests, transactions>>

\* a caller invokes assert_latest_root
AssertLatestRootCall ==
    /\ ManagerAtRest
    /\ \E root \in PreRoots \cup PostRoots, chain \in LatestRootAnswers :
        /\ call' = [op |-> "assert_latest_root", root |-> root,
                    chain |-> chain]
        /\ result' = assert_latest_root(manager, root, chain)
    /\ UNCHANGED <<finVars, managerVars, requests, transactions>>

\* prepare_proof is invoked for a batch; validated says that the caller
\* passed the batch through validate_merkle_proofs first
PrepareBatch(prover, identities, service, validated) ==
    LET out == prepare_proof(prover, USizeOf(0, 0, 0, 0), 1, 2, identities,
                             service)
    IN  /\ call' = [op |-> "prepare_proof", prover |-> prover,
                    identities |-> identities, service |-> service,
                    validated |-> validated]
        /\ result' = out.result
        /\ requests' = out.requests
        /\ UNCHANGED <<finVars, managerVars, transactions>>

\* a caller invokes prepare_proof for a batch it did not validate
PrepareUnvalidatedBatch ==
    /\ ManagerAtRest
    /\ \E prover \in Provers, identities \in IdentityLists,
          service \in BatchServiceOutcomes :
        PrepareBatch(prover, identities, service, FALSE)

\* the caller of a successful validate_merkle_proofs goes on to prepare_proof
\* with that batch
PrepareValidatedBatch ==
    /\ manager.status = "Ok"
    /\ call.op = "validate_merkle_proofs"
    /\ result.status = "Ok"
    /\ \E prover \in Provers, service \in BatchServiceOutcomes :
        PrepareBatch(prover, call.identities, service, TRUE)

\* what the Ethereum client answers to the next submission
SubmissionOutcomes ==
    { [ok |-> TRUE, tx_id |-> TxId(Len(transactions) + 1), message |-> ""],
      [ok |-> FALSE, tx_id |-> TxId(0), message |-> "nonce too low"] }

\* the caller of a successful prepare_proof submits that batch with the proof
\* it obtained
SubmitPreparedBatch ==
    /\ manager.status = "Ok"
    /\ call.op = "prepare_proof"
    /\ result.status = "Ok"
    /\ \E ethereum \in SubmissionOutcomes :
        LET out == register_identities(USizeOf(0, 0, 0, 0), 1, 2,
                                       call.identities, result.proof, ethereum)
        IN  /\ call' = [op |-> "register_identities", prover |-> call.prover,
                        identities |-> call.identities,
                        service |-> call.service,
                        validated |-> call.validated]
            /\ result' = out.result
            /\ transactions' = transactions \o out.transactions
            /\ pending' = IF out.result.status = "Ok"
                          THEN SendTransaction(pending, out.result.tx_id[1])
                          ELSE pending
    /\ UNCHANGED <<finVars, manager, construction, drain, requests>>

\* another task submits a batch through register_identities, before
\* await_clean_slate is called or while it is waiting
SubmitBatch ==
    /\ manager.status = "Ok"
    /\ \/ call.op = "none"
       \/ call.op = "await_clean_slate" /\ drain.pc = "mining"
    /\ Len(transactions) < MaxSubmissions
    /\ \E ethereum \in SubmissionOutcomes :
        LET out == register_identities(USizeOf(0, 0, 0, 0), 1, 2,
                                       <<>>, ProofA, ethereum)
        IN  /\ transactions' = transactions \o out.transactions
            /\ pending' = IF out.result.status = "Ok"
                          THEN SendTransaction(pending, out.result.tx_id[1])
                          ELSE pending
    /\ UNCHANGED <<finVars, manager, construction, drain, call, result,
                   requests>>

\* Ethereum::mine_transaction returned for tx_id: the transaction was mined
\* or has failed for good, and is pending no longer
MineTransaction(pending_transactions, tx_id) ==
    SelectSeq(pending_transactions, LAMBDA tx : tx # tx_id)

\* DrainAfter waiting for the first transaction of the fetched list only
DrainFirstOnly(fetched, mined) ==
    [pc |-> IF Len(mined) >= 1 \/ fetched = <<>> THEN "returned" ELSE "mining",
     fetched |-> fetched, mined |-> mined]

\* the state of await_clean_slate after the mining calls in mined: it waits
\* for the next transaction of the fetched list ("mining") or has returned
\* Ok(()) ("returned"); "failed" is the position after it returned an error
DrainAfter(fetched, mined) ==
    [pc |-> IF Len(mined) = Len(fetched) THEN "returned" ELSE "mining",
     fetched |-> fetched, mined |-> mined]

\* await_clean_slate is called and fetch_pending_identities succeeds
AwaitCleanSlateFetch ==
    /\ manager.status = "Ok"
    /\ call.op = "none"
    /\ call' = [op |-> "await_clean_slate"]
    /\ drain' = DrainAfter(pending, <<>>)
    /\ UNCHANGED <<finVars, manager, construction, pending, result,
                   requests, transactions>>

\* await_clean_slate is called and fetch_pending_identities fails
AwaitCleanSlateFetchError ==
    /\ manager.status = "Ok"
    /\ call.op = "none"
    /\ call' = [op |-> "await_clean_slate"]
    /\ drain' = [pc |-> "failed", fetched |-> <<>>, mined |-> <<>>]
    /\ result' = Err(TxError)
    /\ UNCHANGED <<finVars, manager, construction, pending, requests,
                   transactions>>

\* MineIdentities returning the failure of mine_identities to the caller
MineIdentitiesPropagating(ok) ==
    LET tx_id == drain.fetched[Len(drain.mined) + 1]
        mined == Append(drain.mined, [tx_id |-> tx_id, ok |-> ok])
    IN  /\ drain.pc = "mining"
        /\ pending' = MineTransaction(pending, tx_id)
        /\ drain' = IF ok
                    THEN DrainAfter(drain.fetched, mined)
                    ELSE [pc |-> "failed", fetched |-> drain.fetched,
                          mined |-> mined]
        /\ result' = IF ok THEN result ELSE Err(TxError)
        /\ UNCHANGED <<finVars, manager, construction, call, requests,
                       transactions>>

\* await_clean_slate: mine_identities returns for the next transaction of the
\* fetched list, with success or with a failure that is dropped; after the
\* last one the function returns Ok
MineIdentities(ok) ==
    LET tx_id == drain.fetched[Len(drain.mined) + 1]
        mined == Append(drain.mined, [tx_id |-> tx_id, ok |-> ok])
    IN  /\ drain.pc = "mining"
        /\ pending' = MineTransaction(pending, tx_id)
        /\ drain' = DrainAfter(drain.fetched, mined)
        /\ UNCHANGED <<finVars, manager, construction, call, result,
                       requests, transactions>>

ManagerInit ==
    /\ FinInit
    /\ ProverIdle
    /\ ManagerUnconstructed

ManagerNext ==
    \/ New
    \/ ValidateMerkleProofsCall
    \/ GetSuitableProverCall
    \/ AssertLatestRootCall
    \/ PrepareUnvalidatedBatch
    \/ PrepareValidatedBatch
    \/ SubmitPreparedBatch
    \/ SubmitBatch
    \/ AwaitCleanSlateFetch
    \/ AwaitCleanSlateFetchError
    \/ \E ok \in BOOLEAN : MineIdentities(ok)

ManagerSpec == ManagerInit /\ [][ManagerNext]_vars

Init ==
    /\ FinInit
    /\ ProverIdle
    /\ ManagerReady

Next ==
    \/ \E r \in Roots : Send(r)
    \/ Close
    \/ \E t \in Tasks : AcquireReceiver(t)
    \/ \E t \in Tasks : ReceiveRoot(t)
    \/ \E t \in Tasks : ChannelClosed(t)
    \/ \E t \in Tasks : CheckRootTrue(t)
    \/ \E t \in Tasks : CheckRootFalse(t)
    \/ \E t \in Tasks : CheckRootError(t)
    \/ \E t \in Tasks : WakeUp(t)
    \/ \E t \in Tasks : ApplyUpdates(t)
    \/ \E t \in Tasks : MarkRootOk(t)
    \/ \E t \in Tasks : MarkRootError(t)

Spec == Init /\ [][Next]_vars

ProverInit ==
    /\ FinInit
    /\ ProverIdle
    /\ ManagerReady

ProverNext ==
    \/ GenerateProofCall
    \/ PrepareProofCall
    \/ RegisterIdentitiesCall
    \/ RegisterPreparedBatch
    \/ ProofInputSerde

ProverSpec == ProverInit /\ [][ProverNext]_vars

(***************************************************************************)
(* Properties of the finalization task (checked under Spec).               *)
(***************************************************************************)
Range(f) == {f[i] : i \in DOMAIN f}

\* run() number t takes a step
Stepped(t) == pc'[t] # pc[t]

\* run() number t makes no call on the channel, the tree or the database
TaskQuiet(t) ==
    /\ delivered'[t] = delivered[t]
    /\ confirmed'[t] = confirmed[t]
    /\ applied'[t] = applied[t]
    /\ marked'[t] = marked[t]

\* C1: a task passes a root to apply_updates_up_to and to mark_root_as_mined
\* only after is_root_mined_multi_chain returned true for that delivery of
\* the root: the roots applied and the roots marked are a prefix of the roots
\* confirmed, which are a prefix of the roots delivered; nothing is in the
\* tree or in the database that no task has confirmed.
C1_MarkedOnlyAfterTrue ==
    /\ \A t \in Tasks :
        /\ IsPrefix(confirmed[t], delivered[t])
        /\ IsPrefix(applied[t], confirmed[t])
        /\ IsPrefix(marked[t], confirmed[t])
    /\ \A r \in Range(tree) \cup db_mined :
        \E t \in Tasks : r \in Range(confirmed[t])

\* a root was marked after the check had returned false at least once
C1_Witness ==
    \E t \in Tasks :
        /\ marked[t] # <<>>
        /\ marked[t] = delivered[t]
        /\ polls[t] > 0
        /\ mined_root(t) \in db_mined

\* C2: roots leave the channel in the order they were sent and none is
\* skipped; each task applies and marks the roots it received in that order,
\* and has applied and marked every earlier root before it polls, applies or
\* marks the next one.
C2_ChannelOrder ==
    /\ received \o chan = sent
    /\ \A t \in Tasks :
        /\ IsPrefix(applied[t], delivered[t])
        /\ IsPrefix(marked[t], applied[t])
        /\ Len(delivered[t]) <= Len(marked[t]) + 1
        /\ pc[t] \in {"polling", "sleeping", "advancing"} =>
            /\ Len(applied[t]) = Len(delivered[t]) - 1
            /\ Len(marked[t]) = Len(delivered[t]) - 1

\* a task has marked two different roots, in the order they were sent
C2_Witness ==
    \E t \in Tasks :
        /\ Len(marked[t]) >= 2
        /\ marked[t][1] # marked[t][2]
        /\ marked[t] = sent

\* C3 as stated: every root the tree has been advanced to is marked as mined.
C3_TreeNeverAheadOfDatabase ==
    \A r \in Range(tree) : r \in db_mined

\* C3 amended: the tree is advanced first and the database is written second,
\* so the tree can be ahead of the database by the root a task is advancing:
\* a root applied by a task and not marked as mined is the last root that
\* task applied, and the task is between apply_updates_up_to and the return
\* of mark_root_as_mined or has terminated with the error of that write.
C3_TreeAheadOnlyWhileAdvancing ==
    /\ \A t \in Tasks : \A i \in 1..Len(applied[t]) :
        applied[t][i] \notin db_mined =>
            /\ i = Len(applied[t])
            /\ pc[t] = "marking" \/ ret[t] = "ErrDb"
    /\ \A r \in Range(tree) : r \in db_mined \/
        \E t \in Tasks :
            /\ pc[t] = "marking" \/ ret[t] = "ErrDb"
            /\ applied[t] # <<>>
            /\ applied[t][Len(applied[t])] = r

\* a task terminated on a failed write after it had advanced the tree
C3_Witness ==
    \E t \in Tasks :
        /\ ret[t] = "ErrDb"
        /\ mined_root(t) \in Range(tree)
        /\ mined_root(t) \notin db_mined

\* C4: run() returns Ok only from awaiting-root with the channel closed and
\* empty, every root it received being applied and marked; from
\* awaiting-root with the channel closed and empty the task's step is that
\* return, with no call on tree or database; after it the task does nothing.
C4_CleanExitOnClose ==
    /\ [](\A t \in Tasks :
            /\ ret[t] = "Ok" =>
                /\ pc[t] = "terminated"
                /\ closed
                /\ chan = <<>>
                /\ marked[t] = delivered[t]
            /\ pc[t] = "terminated" => ret[t] \in {"Ok", "ErrCheck", "ErrDb"}
            /\ ret[t] # "none" => pc[t] = "terminated" /\ t \notin lock)
    /\ [][\A t \in Tasks :
            /\ (pc[t] = "awaiting" /\ closed /\ chan = <<>> /\ Stepped(t)) =>
                /\ pc'[t] = "terminated"
                /\ ret'[t] = "Ok"
                /\ TaskQuiet(t)
                /\ tree' = tree
                /\ db_mined' = db_mined
            /\ (ret'[t] = "Ok" /\ ret[t] # "Ok") =>
                pc[t] = "awaiting" /\ closed /\ chan = <<>>
            /\ ret[t] = "Ok" =>
                pc'[t] = pc[t] /\ ret'[t] = ret[t] /\ TaskQuiet(t)]_vars

\* a task that finalized a root returned Ok
C4_Witness ==
    \E t \in Tasks : ret[t] = "Ok" /\ delivered[t] # <<>>

\* C5: when mark_root_as_mined fails the task terminates with that error
\* and from then on receives nothing and calls nothing; when it succeeds the
\* root is recorded and the task is back in awaiting-root.
C5_AdvancingFailureTerminates ==
    /\ [](\A t \in Tasks :
            last_mark[t] = "error" =>
                pc[t] = "terminated" /\ ret[t] = "ErrDb" /\ t \notin lock)
    /\ [][\A t \in Tasks :
            /\ (pc[t] = "marking" /\ Stepped(t)) =>
                \/ /\ last_mark'[t] = "error"
                   /\ pc'[t] = "terminated"
                   /\ ret'[t] = "ErrDb"
                   /\ db_mined' = db_mined
                \/ /\ last_mark'[t] = "ok"
                   /\ pc'[t] = "awaiting"
                   /\ ret'[t] = "none"
                   /\ mined_root(t) \in db_mined'
            /\ ret[t] = "ErrDb" =>
                pc'[t] = pc[t] /\ ret'[t] = ret[t] /\ TaskQuiet(t)]_vars

\* a task terminated on a failed write while a root waits in the channel
C5_Witness ==
    \E t \in Tasks :
        /\ ret[t] = "ErrDb"
        /\ last_mark[t] = "error"
        /\ chan # <<>>

\* C6: a false result sends the task to sleep and the sleep sends it back to
\* polling the same root, whatever the number of false results so far; in
\* between the task receives, applies and marks nothing and does not return.
C6_NoPollingDeadline ==
    /\ [](\A t \in Tasks :
            last_check[t] = "false" =>
                /\ pc[t] \in {"polling", "sleeping"}
                /\ polls[t] > 0
                /\ ret[t] = "none"
                /\ lock = {t}
                /\ Len(applied[t]) = Len(delivered[t]) - 1
                /\ Len(marked[t]) = Len(delivered[t]) - 1)
    /\ [][\A t \in Tasks :
            /\ (pc[t] = "polling" /\ Stepped(t) /\ last_check'[t] = "false") =>
                /\ pc'[t] = "sleeping"
                /\ TaskQuiet(t)
                /\ tree' = tree
                /\ db_mined' = db_mined
            /\ (pc[t] = "sleeping" /\ Stepped(t)) =>
                /\ pc'[t] = "polling"
                /\ last_check'[t] = "false"
                /\ TaskQuiet(t)
                /\ tree' = tree
                /\ db_mined' = db_mined]_vars

\* a task polls again after MaxPolls false results for the same root
C6_Witness ==
    \E t \in Tasks :
        /\ polls[t] = MaxPolls
        /\ last_check[t] = "false"
        /\ pc[t] = "polling"

(***************************************************************************)
(* Properties of the prover client and of the identity manager (checked    *)
(* under ProverSpec).                                                      *)
(***************************************************************************)
ProverOps == {"generate_proof", "prepare_proof"}

\* the call reached Prover::generate_proof
ReachedProver ==
    \/ call.op = "generate_proof"
    \/ call.op = "prepare_proof" /\ result.error # TryFromIntError

\* C7: every request issued carries exactly batch_size commitments and
\* batch_size Merkle proofs; a call of generate_proof with a list of another
\* length (the empty list included) returns the batch-size error and issues
\* no request.
C7_BatchSizeExact ==
    /\ \A k \in 1..Len(requests) :
        /\ Len(requests[k].json.identity_commitments) = call.prover.batch_size
        /\ Len(requests[k].json.merkle_proofs) = call.prover.batch_size
    /\ (ReachedProver /\ Len(call.identities) # call.prover.batch_size) =>
        /\ result.status = "Err"
        /\ result.error = BatchSizeMismatch
        /\ requests = <<>>

\* generate_proof was called with the empty list on a prover of another size
C7_Witness ==
    /\ call.op = "generate_proof"
    /\ call.identities = <<>>
    /\ call.prover.batch_size > 0
    /\ result.error = BatchSizeMismatch
    /\ requests = <<>>

\* C8: for a response body, generate_proof returns the proof when the body
\* parses as a proof; otherwise the rejection with the body's code and
\* message when it parses as an error; otherwise the JSON error. It returns
\* Ok only with the proof of a body that parses as a proof.
C8_ResponseClassification ==
    /\ (call.op \in ProverOps /\ requests # <<>>
            /\ call.service.kind = "response") =>
        LET json == call.service.body
            proof == ParseProof(json)
            error == ParseProverError(json)
        IN  /\ proof.ok =>
                result.status = "Ok" /\ result.proof = json.items
            /\ (~proof.ok /\ error.ok) =>
                /\ result.status = "Err"
                /\ result.error = <<"PROVER FAILURE: Code = ", error.code,
                                    ", Message = ", error.message>>
            /\ (~proof.ok /\ ~error.ok) =>
                result.status = "Err" /\ result.error = JsonError
    /\ (call.op \in ProverOps /\ result.status = "Ok") =>
        /\ call.service.kind = "response"
        /\ call.service.body.type = "array"
        /\ Len(call.service.body.items) = ProofLen
        /\ result.proof = call.service.body.items
    /\ (call.op \in ProverOps /\ requests # <<>>
            /\ call.service.body =
                JsonObject([code |-> "Oh no!",
                            message |-> "Things went wrong."])) =>
        result = Err(<<"PROVER FAILURE: Code = ", "Oh no!",
                       ", Message = ", "Things went wrong.">>)

\* the service answered a request with {code, message}
C8_Witness ==
    /\ call.op = "generate_proof"
    /\ requests # <<>>
    /\ call.service.kind = "response"
    /\ call.service.body.type = "object"
    /\ {"code", "message"} \subseteq DOMAIN call.service.body.fields
    /\ result.status = "Err"

\* x <= 2^32 - 1 for a usize x, limb by limb
FitsU32(x) == x[1] = 0 /\ x[2] = 0 /\ x[3] <= 65535 /\ x[4] <= 65535

\* C9: prepare_proof and register_identities fail with the conversion error
\* exactly when start_index exceeds 2^32 - 1, and then no request is issued
\* and no transaction is handed over; 2^32 - 1 is accepted and 2^32 is not.
C9_StartIndexFitsU32 ==
    call.op \in {"prepare_proof", "register_identities"} =>
        /\ result.error = TryFromIntError <=> ~FitsU32(call.start_index)
        /\ ~FitsU32(call.start_index) =>
            /\ result.status = "Err"
            /\ requests = <<>>
            /\ transactions = <<>>
        /\ call.start_index = USizeOf(0, 0, 65535, 65535) =>
            result.error # TryFromIntError
        /\ call.start_index = USizeOf(0, 1, 0, 0) =>
            result.error = TryFromIntError
        /\ \A k \in 1..Len(requests) :
            requests[k].json.start_index =
                <<call.start_index[3], call.start_index[4]>>
        /\ (call.op = "register_identities" /\ FitsU32(call.start_index)) =>
            /\ Len(transactions) = 1
            /\ transactions[1].tx.args[3] =
                <<call.start_index[3], call.start_index[4]>>

\* register_identities was called with start_index = 2^32
C9_Witness ==
    /\ call.op = "register_identities"
    /\ call.start_index = USizeOf(0, 1, 0, 0)
    /\ result.error = TryFromIntError
    /\ transactions = <<>>

\* bytes of the i-th commitment in the preimage of an input hash
HashedCommitment(input_hash, i) ==
    SubSeq(input_hash.keccak256, 68 + 32 * (i - 1) + 1, 68 + 32 * i)

\* the 32 big-endian bytes of a value below 256
SmallAsBytes32(v) == [j \in 1..32 |-> IF j = 32 THEN v ELSE 0]

\* C10: element i of identityCommitments, of merkleProofs, of the commitments
\* in the input hash and of the calldata identities is the commitment (the
\* Merkle proof) of element i of the identity list passed in.
C10_OrderPreserved ==
    LET ids == call.identities
    IN  /\ \A k \in 1..Len(requests) :
            LET input == requests[k].json
            IN  /\ Len(input.identity_commitments) = Len(ids)
                /\ Len(input.merkle_proofs) = Len(ids)
                /\ Len(input.input_hash.keccak256) = 68 + 32 * Len(ids)
                /\ \A i \in 1..Len(ids) :
                    /\ input.identity_commitments[i] = ids[i].commitment
                    /\ input.merkle_proofs[i] = ids[i].merkle_proof
                    /\ HashedCommitment(input.input_hash, i) =
                           SmallAsBytes32(ids[i].commitment)
        /\ \A k \in 1..Len(transactions) :
            LET identities == transactions[k].tx.args[4]
            IN  /\ Len(identities) = Len(ids)
                /\ \A i \in 1..Len(ids) : identities[i] = ids[i].commitment
        /\ (requests # <<>> /\ transactions # <<>>) =>
            requests[1].json.identity_commitments =
                transactions[1].tx.args[4]

\* a batch of two different identities was proved and then registered
C10_Witness ==
    /\ call.op = "register_identities"
    /\ call.prepared
    /\ Len(call.identities) = 2
    /\ call.identities[1] # call.identities[2]
    /\ requests # <<>>
    /\ transactions # <<>>

(***************************************************************************)
(* Properties of the identity manager (ManagerSpec).                       *)
(***************************************************************************)
\* the batch of the call reached the prover or the Ethereum client
BatchAccepted ==
    \/ call.op = "prepare_proof" /\ requests # <<>>
    \/ call.op = "register_identities" /\ transactions # <<>>

\* every Merkle proof of the call's batch is as long as the tree is deep
ProofsOfTreeDepth ==
    \A i \in 1..Len(call.identities) :
        Len(call.identities[i].merkle_proof) = manager.tree_depth

\* C11 as stated: every batch for which prepare_proof calls the prover or
\* register_identities submits a transaction has only Merkle proofs of
\* length tree_depth.
C11_AcceptedBatchHasTreeDepthProofs ==
    BatchAccepted => ProofsOfTreeDepth

\* C11 amended: validate_merkle_proofs accepts a batch exactly when every
\* Merkle proof in it has length tree_depth, so a batch that the caller
\* validated before prepare_proof and register_identities has only such
\* proofs when it reaches the prover or the Ethereum client; the two
\* functions themselves check no proof length.
C11_ValidatedBatchHasTreeDepthProofs ==
    /\ call.op = "validate_merkle_proofs"
           => (result.status = "Ok" <=> ProofsOfTreeDepth)
    /\ (BatchAccepted /\ call.validated) => ProofsOfTreeDepth

\* a validated batch of two identities was submitted in a transaction
C11_Witness ==
    /\ call.op = "register_identities"
    /\ call.validated
    /\ transactions # <<>>
    /\ Len(call.identities) >= 2
    /\ ProofsOfTreeDepth

\* the transactions await_clean_slate has passed to mine_identities, in call
\* order
MinedHandles == [i \in 1..Len(drain.mined) |-> drain.mined[i].tx_id]

\* C12: once the fetch has succeeded, await_clean_slate passes the handles of
\* the fetched list to mine_identities one by one in list order, each exactly
\* once, goes on after a failed one, and returns Ok after the last whatever
\* failed; it returns an error only when the fetch failed, before any
\* mine_identities call.
C12_DrainDiscardsFailures ==
    /\ drain.pc = "mining"
           => /\ Len(drain.mined) < Len(drain.fetched)
              /\ IsPrefix(MinedHandles, drain.fetched)
    /\ drain.pc = "returned" => MinedHandles = drain.fetched
    /\ drain.pc = "failed"
           => /\ drain.mined = <<>>
              /\ drain.fetched = <<>>
              /\ result = Err(TxError)

\* the drain returned Ok although mine_identities failed for the first
\* handle, and a later handle was mined after that failure
C12_Witness ==
    /\ call.op = "await_clean_slate"
    /\ drain.pc = "returned"
    /\ Len(drain.mined) >= 2
    /\ ~drain.mined[1].ok
    /\ drain.mined[2].ok

\* C13 as stated: when await_clean_slate has returned Ok, no transaction is
\* pending in the Ethereum client, also when register_identities calls of
\* other tasks interleave with the drain.
C13_NothingPendingAfterDrain ==
    drain.pc = "returned" => pending = <<>>

\* C13 amended: when await_clean_slate has returned Ok, no transaction of
\* the list it fetched is pending any more; a transaction submitted after
\* the fetch is not awaited and may still be pending.
C13_FetchedNotPendingAfterDrain ==
    drain.pc = "returned"
        => \A i \in 1..Len(drain.fetched) :
               \A j \in 1..Len(pending) : pending[j] # drain.fetched[i]

\* the drain returned Ok after two fetched transactions while a transaction
\* submitted during the drain is still pending
C13_Witness ==
    /\ call.op = "await_clean_slate"
    /\ drain.pc = "returned"
    /\ Len(drain.fetched) >= 2
    /\ pending # <<>>

\* new() got answers to get_code and owner(), and owner() named the signer
OwnerIsSigner ==
    /\ construction.chain.code.ok
    /\ construction.chain.owner.ok
    /\ construction.chain.owner.value = construction.signer

\* new() got answers to get_code and owner(), and owner() named another
\* address than the signer
OwnerIsNotSigner ==
    /\ construction.chain.code.ok
    /\ construction.chain.owner.ok
    /\ construction.chain.owner.value # construction.signer

\* C14: new() yields an identity manager exactly when owner() answered the
\* signer's address; an owner mismatch ends in the panic and yields no
\* manager; empty code at the contract address is logged and leaves the
\* outcome to the owner check.
C14_ConstructionRequiresOwner ==
    manager.status # "none" =>
        /\ manager.status = "Ok" <=> OwnerIsSigner
        /\ manager.status = "panic" <=> OwnerIsNotSigner
        /\ manager.status = "panic"
               => /\ manager.error = <<ReadOnlyPanic>>
                  /\ manager.logged[Len(manager.logged)] = SignerNotOwner
        /\ manager.status = "Ok"
               => /\ manager.tree_depth = construction.options.tree_depth
                  /\ manager.prover_map = construction.prover_map
                  /\ \A i \in 1..Len(manager.logged) :
                         manager.logged[i] # SignerNotOwner
        /\ (construction.chain.code.ok /\ construction.chain.code.empty)
               => manager.logged[1] = NoCodeDeployed

\* an identity manager was constructed over an address without code
C14_Witness ==
    /\ manager.status = "Ok"
    /\ construction.chain.code.empty
    /\ manager.logged = <<NoCodeDeployed>>

\* C15: get_suitable_prover(n) returns the prover registered under the key
\* n, whose batch size is n, and fails with the no-prover error when the
\* registry has no key n, also when it holds provers for larger and for
\* smaller batches.
C15_ExactProverOrError ==
    call.op = "get_suitable_prover" =>
        LET n == call.num_identities
        IN  IF n \in DOMAIN manager.prover_map
            THEN /\ result.status = "Ok"
                 /\ result.prover = manager.prover_map[n]
                 /\ result.prover.batch_size = n
            ELSE /\ result.status = "Err"
                 /\ result.error =
                        <<"No available prover for batch size: ">>
                            \o DecimalDigits(n)

\* no prover for the size asked, although the registry holds a larger and a
\* smaller one
C15_Witness ==
    /\ call.op = "get_suitable_prover"
    /\ result.status = "Err"
    /\ \E k \in DOMAIN manager.prover_map : k > call.num_identities
    /\ \E k \in DOMAIN manager.prover_map : k < call.num_identities

\* C19: when latestRoot() answers, assert_latest_root(expected) returns Ok
\* exactly when the answer equals expected and the root-mismatch error
\* naming expected otherwise; a failed latestRoot() call is returned as its
\* error; the call leaves the identity manager, the pending transactions
\* and the records of requests and transactions as they were.
C19_LatestRootCompared ==
    call.op = "assert_latest_root" =>
        LET latest_root == call.chain.latest_root
        IN  /\ latest_root.ok
                   => (result.status = "Ok" <=> latest_root.value = call.root)
            /\ (latest_root.ok /\ latest_root.value # call.root)
                   => /\ result.status = "Err"
                      /\ result.error =
                             DecimalDigits(call.root)
                                 \o <<" is not latest root.">>
            /\ ~latest_root.ok => result = Err(ContractError)
            /\ manager = new(construction.options, construction.signer,
                             construction.prover_map, construction.chain)
            /\ pending = <<>>
            /\ drain = DrainIdle
            /\ requests = <<>>
            /\ transactions = <<>>

\* latestRoot() answered another root than the expected one, whose byte
\* form has several non-zero bytes
C19_Witness ==
    /\ call.op = "assert_latest_root"
    /\ call.chain.latest_root.ok
    /\ call.root = 16909060
    /\ call.chain.latest_root.value = 258
    /\ result.status = "Err"

(***************************************************************************)
(* Further properties of the calls (ProverSpec).                           *)
(***************************************************************************)
\* C16: register_identities with a start index that fits in 32 bits hands
\* exactly one registerIdentities transaction (proof, pre-root, start
\* index, commitments, post-root) to the Ethereum client with the
\* expect-mining flag set; it returns the transaction id the client
\* allocated, or, when the client rejects the submission, an error with the
\* client's message and no transaction id.
C16_OneSubmissionPerCall ==
    (call.op = "register_identities" /\ FitsU32(call.start_index)) =>
        /\ Len(transactions) = 1
        /\ transactions[1].expect_mining = TRUE
        /\ transactions[1].tx.function = "registerIdentities"
        /\ transactions[1].tx.args =
               << call.proof_data, call.pre_root,
                  <<call.start_index[3], call.start_index[4]>>,
                  [i \in 1..Len(call.identities) |->
                      call.identities[i].commitment],
                  call.post_root >>
        /\ call.ethereum.ok
               => /\ result.status = "Ok"
                  /\ result.tx_id = <<call.ethereum.tx_id>>
        /\ ~call.ethereum.ok
               => /\ result.status = "Err"
                  /\ result.error = <<call.ethereum.message>>
                  /\ result.tx_id = <<>>

\* the client rejected the submission of a batch of two identities and the
\* call returned the client's message
C16_Witness ==
    /\ call.op = "register_identities"
    /\ FitsU32(call.start_index)
    /\ Len(call.identities) = 2
    /\ ~call.ethereum.ok
    /\ Len(transactions) = 1
    /\ result.error = <<"nonce too low">>

\* the 32 bytes from position from are the big-endian form of v, a number
\* below 2^31: 28 zero bytes and the four bytes of v
WordIs(bytes, from, v) ==
    /\ \A j \in from..(from + 27) : bytes[j] = 0
    /\ bytes[from + 28] < 128
    /\ FromBigEndian(SubSeq(bytes, from + 28, from + 31)) = v

\* C17: the preimage of the input hash of a request with N commitments has
\* 4 + 32 + 32 + 32*N bytes: the start index in 4 big-endian bytes, the
\* pre-root and the post-root in 32 big-endian bytes each, then every
\* commitment in 32 big-endian bytes in list order, and nothing else; the
\* hash is determined by these four inputs.
C17_PreimageLayout ==
    \A k \in 1..Len(requests) :
        LET proof_input == requests[k].json
            bytes == proof_input.input_hash.keccak256
            n == Len(proof_input.identity_commitments)
        IN  /\ Len(bytes) = 4 + 32 + 32 + 32 * n
            /\ \A i \in 1..Len(bytes) : bytes[i] \in 0..255
            /\ bytes[1] * 256 + bytes[2] = proof_input.start_index[1]
            /\ bytes[3] * 256 + bytes[4] = proof_input.start_index[2]
            /\ WordIs(bytes, 5, proof_input.pre_root)
            /\ WordIs(bytes, 37, proof_input.post_root)
            /\ \A i \in 1..n :
                   WordIs(bytes, 69 + 32 * (i - 1),
                          proof_input.identity_commitments[i])
            /\ proof_input.input_hash =
                   compute_input_hash(proof_input.start_index,
                                      proof_input.pre_root,
                                      proof_input.post_root,
                                      proof_input.identity_commitments)

\* a request for two commitments whose start index and roots have several
\* non-zero bytes
C17_Witness ==
    /\ call.op = "prepare_proof"
    /\ Len(requests) = 1
    /\ requests[1].json.identity_commitments = <<3, 1>>
    /\ requests[1].json.start_index = <<65535, 65535>>
    /\ requests[1].json.pre_root = 258
    /\ requests[1].json.post_root = 16909060

\* C18: a call of generate_proof issues at most one HTTP request, whatever
\* the proving service does with it, and exactly one when the batch has the
\* prover's size and the request could be built.
C18_AtMostOneRequest ==
    call.op = "generate_proof" =>
        /\ Len(requests) <= 1
        /\ (~BatchSizeDiffers(call.prover, call.identities)
                /\ call.service.kind \in {"transport_error", "response"})
               => Len(requests) = 1
        /\ (BatchSizeDiffers(call.prover, call.identities)
                \/ call.service.kind \in {"join_error", "build_error"})
               => requests = <<>>

\* the transport failed and the call returned its error after one request
C18_Witness ==
    /\ call.op = "generate_proof"
    /\ call.service.kind = "transport_error"
    /\ result = Err(TransportError)
    /\ Len(requests) = 1

\* a JSON string that renders a number as 0x and hexadecimal digits without
\* leading zeros
IsHexString(json) ==
    /\ json.type = "string"
    /\ Len(json.items) >= 3
    /\ json.items[1] = "0"
    /\ json.items[2] = "x"
    /\ json.items[3] # "0" \/ Len(json.items) = 3

\* C20: the JSON form of a ProofInput is an object of the six camelCase
\* fields, with the field elements as 0x-prefixed hexadecimal strings and
\* startIndex as a number; parsing it succeeds and yields a ProofInput equal
\* to the serialized one, field by field.
C20_SerdeRoundTrip ==
    call.op = "proof_input_serde" =>
        /\ call.json.type = "object"
        /\ DOMAIN call.json.fields = ProofInputKeys
        /\ IsHexString(call.json.fields.inputHash)
        /\ IsHexString(call.json.fields.preRoot)
        /\ IsHexString(call.json.fields.postRoot)
        /\ call.json.fields.startIndex.type = "number"
        /\ Len(call.json.fields.identityCommitments.items)
               = Len(call.proof_input.identity_commitments)
        /\ Len(call.json.fields.merkleProofs.items)
               = Len(call.proof_input.merkle_proofs)
        /\ result.status = "Ok"
        /\ call.parsed = call.proof_input
        /\ call.parsed.input_hash = call.proof_input.input_hash
        /\ call.parsed.start_index = call.proof_input.start_index
        /\ call.parsed.pre_root = call.proof_input.pre_root
        /\ call.parsed.post_root = call.proof_input.post_root
        /\ call.parsed.identity_commitments
               = call.proof_input.identity_commitments
        /\ call.parsed.merkle_proofs = call.proof_input.merkle_proofs

\* a request with the largest start index, three commitments and Merkle
\* proofs of different lengths came back from its JSON form
C20_Witness ==
    /\ call.op = "proof_input_serde"
    /\ call.proof_input.start_index = <<65535, 65535>>
    /\ call.json.fields.startIndex.items
           = <<"4", "2", "9", "4", "9", "6", "7", "2", "9", "5">>
    /\ call.proof_input.input_hash = 41689
    /\ call.json.fields.inputHash.items = <<"0", "x", "a", "2", "d", "9">>
    /\ call.proof_input.identity_commitments = <<1, 3, 2>>
    /\ call.parsed = call.proof_input

(***************************************************************************)
(* Further properties of the finalization task (checked under Spec).       *)
(***************************************************************************)
\* run() number t is past lock().await and has not returned
Running(t) ==
    pc[t] \in {"awaiting", "polling", "sleeping", "advancing", "marking"}

\* C21: the runs that are past lock().await and have not returned hold the
\* receiver's mutex, and at most one run holds it; a run that waits for the
\* mutex while another holds it stays where it is, and a run that has not
\* got the mutex has received, confirmed, applied and marked nothing; every
\* call on the channel, the tree or the database is made by the holder.
C21_SingleReceiver ==
    /\ [](/\ \A t \in Tasks : Running(t) <=> lock = {t}
          /\ \A t, u \in Tasks : (Running(t) /\ Running(u)) => t = u
          /\ \A t \in Tasks :
                pc[t] = "start" =>
                    /\ delivered[t] = <<>>
                    /\ confirmed[t] = <<>>
                    /\ applied[t] = <<>>
                    /\ marked[t] = <<>>)
    /\ [][\A t \in Tasks :
            /\ (pc[t] = "start" /\ lock # {}) => pc'[t] = "start"
            /\ ~TaskQuiet(t) => lock = {t}
            /\ (Running(t) /\ Running(t)') => lock' = {t}]_vars

\* a second run received a root after the first run had received one and
\* terminated
C21_Witness ==
    \E t, u \in Tasks :
        /\ t # u
        /\ pc[t] = "terminated"
        /\ delivered[t] # <<>>
        /\ lock = {u}
        /\ delivered[u] # <<>>

\* C22: a task calls apply_updates_up_to and then mark_root_as_mined for
\* the root of its current delivery, each at most once per delivery: the
\* roots marked are a prefix of the roots applied, which are a prefix of the
\* roots delivered; apply_updates_up_to is called for the delivery that has
\* no call yet, mark_root_as_mined for the delivery that was applied and not
\* yet marked; the tree holds one entry per call of apply_updates_up_to.
C22_ApplyBeforeMark ==
    /\ [](\A t \in Tasks :
            /\ IsPrefix(marked[t], applied[t])
            /\ IsPrefix(applied[t], delivered[t])
            /\ Len(applied[t]) <= Len(marked[t]) + 1
            /\ \A r \in Range(marked[t]) : r \in Range(tree))
    /\ [][\A t \in Tasks :
            /\ applied'[t] # applied[t] =>
                /\ applied'[t] = Append(applied[t], mined_root(t))
                /\ tree' = Append(tree, mined_root(t))
                /\ Len(applied[t]) = Len(delivered[t]) - 1
                /\ marked'[t] = marked[t]
                /\ delivered'[t] = delivered[t]
            /\ marked'[t] # marked[t] =>
                /\ marked'[t] = Append(marked[t], mined_root(t))
                /\ Len(marked[t]) = Len(delivered[t]) - 1
                /\ applied[t] = delivered[t]
                /\ applied'[t] = applied[t]
                /\ delivered'[t] = delivered[t]
            /\ tree' # tree => \E u \in Tasks : applied'[u] # applied[u]]_vars

\* the same root was delivered twice to a task, which applied and marked it
\* once for each delivery
C22_Witness ==
    \E t \in Tasks :
        /\ Len(delivered[t]) = 2
        /\ delivered[t][1] = delivered[t][2]
        /\ applied[t] = delivered[t]
        /\ marked[t] = delivered[t]
        /\ Len(tree) = 2

\* C23: when is_root_mined_multi_chain fails, the step that gets the error
\* ends run() with the error of the check: no sleep, no call on the tree or
\* the database; the root of that delivery stays unconfirmed, unapplied and
\* unmarked by the task, which receives nothing and calls nothing afterwards.
C23_CheckErrorTerminates ==
    /\ [](\A t \in Tasks :
            last_check[t] = "error" =>
                /\ pc[t] = "terminated"
                /\ ret[t] = "ErrCheck"
                /\ t \notin lock
                /\ Len(confirmed[t]) = Len(delivered[t]) - 1
                /\ Len(applied[t]) = Len(delivered[t]) - 1
                /\ Len(marked[t]) = Len(delivered[t]) - 1)
    /\ [][\A t \in Tasks :
            /\ (pc[t] = "polling" /\ Stepped(t) /\ last_check'[t] = "error") =>
                /\ pc'[t] = "terminated"
                /\ ret'[t] = "ErrCheck"
                /\ TaskQuiet(t)
                /\ tree' = tree
                /\ db_mined' = db_mined
                /\ chan' = chan
            /\ ret[t] = "ErrCheck" =>
                /\ pc'[t] = pc[t]
                /\ ret'[t] = ret[t]
                /\ last_check'[t] = last_check[t]
                /\ TaskQuiet(t)]_vars

\* the check failed after it had returned false for the same root, while a
\* later root waits in the channel
C23_Witness ==
    \E t \in Tasks :
        /\ ret[t] = "ErrCheck"
        /\ last_check[t] = "error"
        /\ polls[t] > 0
        /\ chan # <<>>
        /\ mined_root(t) \notin Range(tree)

(***************************************************************************)
(* The finalization task when no call fails: is_root_mined_multi_chain     *)
(* answers true or false and mark_root_as_mined succeeds.                  *)
(***************************************************************************)
LiveNext ==
    \/ \E r \in Roots : Send(r)
    \/ Close
    \/ \E t \in Tasks : AcquireReceiver(t)
    \/ \E t \in Tasks : ReceiveRoot(t)
    \/ \E t \in Tasks : ChannelClosed(t)
    \/ \E t \in Tasks : CheckRootTrue(t)
    \/ \E t \in Tasks : CheckRootFalse(t)
    \/ \E t \in Tasks : WakeUp(t)
    \/ \E t \in Tasks : ApplyUpdates(t)
    \/ \E t \in Tasks : MarkRootOk(t)

\* the steps run() takes by itself once the runtime schedules it
TaskStep(t) ==
    \/ AcquireReceiver(t)
    \/ ReceiveRoot(t)
    \/ ChannelClosed(t)
    \/ WakeUp(t)
    \/ ApplyUpdates(t)
    \/ MarkRootOk(t)

\* the runtime keeps scheduling a task that can take a step, and a root that
\* is polled again and again is found mined on one of the polls
LiveFairness ==
    \A t \in Tasks : WF_vars(TaskStep(t)) /\ SF_vars(CheckRootTrue(t))

LiveSpec == Init /\ [][LiveNext]_vars /\ LiveFairness

\* C24: when no check and no database write fails and each polled root is
\* eventually found mined, the k-th root sent on the channel is eventually
\* the k-th root applied to the canonical tree and is marked as mined in the
\* database, and once the channel is closed every run() eventually returns.
C24_Liveness ==
    /\ \A k \in 1..MaxSends :
           (Len(sent) >= k)
               ~> (/\ Len(sent) >= k
                   /\ Len(tree) >= k
                   /\ tree[k] = sent[k]
                   /\ sent[k] \in db_mined)
    /\ closed ~> (\A t \in Tasks : pc[t] = "terminated" /\ ret[t] = "Ok")

\* every root that was sent is applied and marked after a poll answered
\* false, the channel is closed and every run() has returned
C24_Witness ==
    /\ Len(sent) = MaxSends
    /\ tree = sent
    /\ Range(sent) \subseteq db_mined
    /\ closed
    /\ \A t \in Tasks : pc[t] = "terminated"
    /\ \E t \in Tasks : polls[t] > 0

\* the orders in which the runs may have held the receiver
RunOrders ==
    {order \in [1..NumRuns -> Tasks] :
        \A i, j \in 1..NumRuns : order[i] = order[j] => i = j}

\* the roots delivered to the runs, in the order of the runs
RECURSIVE DeliveredInOrder(_, _)
DeliveredInOrder(order, n) ==
    IF n = 0
    THEN <<>>
    ELSE DeliveredInOrder(order, n - 1) \o delivered[order[n]]

\* run() has returned an error
Failed(t) == ret[t] \in {"ErrCheck", "ErrDb"}

\* C25: a root leaves the channel when recv() returns it and never comes
\* back: the channel only loses its head to a receiving run or gains a newly
\* sent root at its end; what was received followed by what is buffered is
\* what was sent; each received root was delivered to exactly one run, the
\* runs taking consecutive stretches of the channel, so the run that
\* receives after a failed run gets the root sent after the one that failed,
\* and a failed run leaves its deliveries and the channel as they are.
C25_NeverPutBack ==
    /\ [](/\ received \o chan = sent
          /\ \E order \in RunOrders :
                 received = DeliveredInOrder(order, NumRuns))
    /\ [][/\ \/ chan' = chan /\ received' = received
             \/ /\ chan # <<>>
                /\ chan' = Tail(chan)
                /\ received' = Append(received, Head(chan))
                /\ \E t \in Tasks :
                       /\ delivered'[t] = Append(delivered[t], sent[Len(received) + 1])
                       /\ \A u \in Tasks \ {t} : delivered'[u] = delivered[u]
             \/ /\ received' = received
                /\ Len(sent') = Len(sent) + 1
                /\ chan' = Append(chan, sent'[Len(sent')])
          /\ \A t \in Tasks :
                 /\ (~Failed(t) /\ Failed(t)') =>
                        /\ chan' = chan
                        /\ received' = received
                        /\ delivered' = delivered
                        /\ received[Len(received)] = mined_root(t)
                 /\ Failed(t) => (Failed(t)' /\ TaskQuiet(t))]_vars

\* a run failed on a root, and a later run on the same receiver has
\* received, applied and marked the root that was sent after it
C25_Witness ==
    \E t, u \in Tasks :
        /\ t # u
        /\ Failed(t)
        /\ Len(delivered[t]) = 1
        /\ Len(delivered[u]) = 1
        /\ sent = delivered[t] \o delivered[u]
        /\ sent[1] # sent[2]
        /\ applied[u] = delivered[u]
        /\ marked[u] = delivered[u]
        /\ sent[1] \notin db_mined

(***************************************************************************)
(* The finalization task, when no call fails, with producers that wait in  *)
(* send() while the mined-roots channel is full.                           *)
(***************************************************************************)
\* send() finds room; waiting producers are served before a newcomer
SendWithRoom(r) == blocked = <<>> /\ Send(r)

\* the last sender is dropped; a producer waiting in send() holds a sender
CloseIdle == blocked = <<>> /\ Close

BackpressureNext ==
    \/ \E r \in Roots : SendWithRoom(r)
    \/ \E r \in Roots : SendBlocked(r)
    \/ SendUnblocked
    \/ CloseIdle
    \/ \E t \in Tasks : AcquireReceiver(t)
    \/ \E t \in Tasks : ReceiveRoot(t)
    \/ \E t \in Tasks : ChannelClosed(t)
    \/ \E t \in Tasks : CheckRootTrue(t)
    \/ \E t \in Tasks : CheckRootFalse(t)
    \/ \E t \in Tasks : WakeUp(t)
    \/ \E t \in Tasks : ApplyUpdates(t)
    \/ \E t \in Tasks : MarkRootOk(t)

BackpressureSpec == Init /\ [][BackpressureNext]_vars

\* C26: the channel never buffers more roots than its capacity; a send
\* completes only while the channel has room, so a producer that waits on
\* the full channel keeps waiting until a run has received a root; a waiting
\* root leaves the producers only as the newest root of the channel, and a
\* buffered root leaves the channel only by being delivered to a run: what
\* was received followed by what is buffered is what was sent.
C26_Backpressure ==
    /\ [](/\ Len(chan) <= ChannelCapacity
          /\ received \o chan = sent)
    /\ [][/\ sent' # sent =>
                 /\ Len(chan) < ChannelCapacity
                 /\ Len(sent') = Len(sent) + 1
                 /\ chan' = Append(chan, sent'[Len(sent')])
          /\ Len(chan) = ChannelCapacity => IsPrefix(blocked, blocked')
          /\ blocked' # blocked =>
                 \/ IsPrefix(blocked, blocked') /\ sent' = sent /\ chan' = chan
                 \/ /\ blocked # <<>>
                    /\ blocked' = Tail(blocked)
                    /\ sent' = Append(sent, Head(blocked))
                    /\ chan' = Append(chan, Head(blocked))
          /\ Len(chan') < Len(chan) =>
                 /\ chan' = Tail(chan)
                 /\ received' = Append(received, Head(chan))
                 /\ \E t \in Tasks :
                        delivered'[t] = Append(delivered[t], Head(chan))]_vars

\* a producer that had waited on the full channel got its root in after a
\* run received one, and the channel is full again
C26_Witness ==
    /\ Len(sent) > ChannelCapacity
    /\ Len(chan) = ChannelCapacity
    /\ received # <<>>
    /\ blocked = <<>>
    /\ \E t \in Tasks : pc[t] \in {"polling", "sleeping", "advancing", "marking"}

====
